---- MODULE Spec2Model ----
(***************************************************************************)
(* Cache archive restore engine of turborepo-cache                         *)
(* (crates/turborepo-cache/src/cache_archive/restore.rs).                  *)
(*                                                                         *)
(* A name or a link target is a sequence of one-character strings, a path  *)
(* is a sequence of components, and a component is a sequence of           *)
(* characters.  The build modelled is the cfg(unix) one: `/` is the only   *)
(* separator and a backslash is an ordinary character.                     *)
(***************************************************************************)
EXTENDS Naturals, Sequences, FiniteSets, TLC

(***************************************************************************)
(* Bounds                                                                  *)
(***************************************************************************)
\* longest archive the reader yields
MaxEntries == 3
\* the longest entry name given to the name validator on its own
MaxNameLen == 5

\* the longest archive of each of two concurrent restores
ParEntries == 3

\* symbolic links the OS follows in one path resolution before ELOOP
MaxFollow == 4

\* the longest link target given to the canonicalizer on its own
MaxTargetLen == 4

\* the most patterns given to the package hasher
MaxInputs == 2

(***************************************************************************)
(* Strings                                                                 *)
(***************************************************************************)
Last(s) == s[Len(s)]

Front(s) == SubSeq(s, 1, Len(s) - 1)

StartsWith(s, p) == Len(p) <= Len(s) /\ SubSeq(s, 1, Len(p)) = p

EndsWith(s, p) == Len(p) <= Len(s) /\ SubSeq(s, Len(s) - Len(p) + 1, Len(s)) = p

Contains(s, p) ==
    \E i \in 1..(Len(s) + 1) : i + Len(p) - 1 <= Len(s) /\ SubSeq(s, i, i + Len(p) - 1) = p

IsPrefix(p, s) == Len(p) <= Len(s) /\ SubSeq(s, 1, Len(p)) = p

RECURSIVE SplitSlash(_)
\* the pieces of s between its `/` characters, empty pieces included
SplitSlash(s) ==
    IF \A i \in 1..Len(s) : s[i] # "/" THEN <<s>>
    ELSE LET i == CHOOSE k \in 1..Len(s) : s[k] = "/" /\ \A j \in 1..(k - 1) : s[j] # "/"
         IN  <<SubSeq(s, 1, i - 1)>> \o SplitSlash(SubSeq(s, i + 1, Len(s)))

RECURSIVE JoinSlash(_)
\* the components of a relative path written back with `/` between them
JoinSlash(comps) ==
    IF comps = <<>> THEN <<>>
    ELSE IF Len(comps) = 1 THEN comps[1]
    ELSE comps[1] \o <<"/">> \o JoinSlash(Tail(comps))

\* faulty variant of Components: the empty piece after a trailing separator
\* is kept
Components_KeepsTrailingEmpty(s) ==
    LET parts == SplitSlash(s)
        keep(i) == (parts[i] = <<>> => i = Len(parts)) /\ (parts[i] = <<".">> => i = 1)
        idx == SelectSeq([i \in 1..Len(parts) |-> i], keep)
    IN  [k \in 1..Len(idx) |-> parts[idx[k]]]

\* std::path::Path::components on unix, without the RootDir marker: repeated
\* separators, a trailing separator and every `.` that is not leading vanish
Components(s) ==
    LET parts == SplitSlash(s)
        keep(i) == parts[i] # <<>> /\ (parts[i] = <<".">> => i = 1)
        idx == SelectSeq([i \in 1..Len(parts) |-> i], keep)
    IN  [k \in 1..Len(idx) |-> parts[idx[k]]]

(***************************************************************************)
(* The host                                                                *)
(***************************************************************************)
VARIABLE
    windows            \* TRUE when the program is built for a Windows host

(***************************************************************************)
(* Name validator                                                          *)
(***************************************************************************)
\* faulty variant of check_name: the `../` prefix is not looked for
check_name_NoParentPrefix(name) ==
    IF name = <<>> THEN [well_formed |-> FALSE, windows_safe |-> FALSE]
    ELSE
      LET is_dot    == name = <<".">> \/ name = <<".", ".">>
          bad_start == \/ StartsWith(name, <<"/">>)
                       \/ StartsWith(name, <<".", "/">>)
          bad_end   == \/ EndsWith(name, <<"/", ".">>)
                       \/ EndsWith(name, <<"/", ".", ".">>)
          bad_mid   == \/ Contains(name, <<"/", "/">>)
                       \/ Contains(name, <<"/", ".", "/">>)
                       \/ Contains(name, <<"/", ".", ".", "/">>)
      IN  [well_formed  |-> ~(is_dot \/ bad_start \/ bad_end \/ bad_mid),
           windows_safe |-> ~Contains(name, <<"\\">>)]

\* faulty variant of check_name: the `/..` suffix is not looked for
check_name_NoParentSuffix(name) ==
    IF name = <<>> THEN [well_formed |-> FALSE, windows_safe |-> FALSE]
    ELSE
      LET is_dot    == name = <<".">> \/ name = <<".", ".">>
          bad_start == \/ StartsWith(name, <<"/">>)
                       \/ StartsWith(name, <<".", "/">>)
                       \/ StartsWith(name, <<".", ".", "/">>)
          bad_end   == EndsWith(name, <<"/", ".">>)
          bad_mid   == \/ Contains(name, <<"/", "/">>)
                       \/ Contains(name, <<"/", ".", "/">>)
                       \/ Contains(name, <<"/", ".", ".", "/">>)
      IN  [well_formed  |-> ~(is_dot \/ bad_start \/ bad_end \/ bad_mid),
           windows_safe |-> ~Contains(name, <<"\\">>)]

\* faulty variant of check_name: the backslash is looked for in well-formed
\* names only
check_name_BackslashAfterWellFormed(name) ==
    IF name = <<>> THEN [well_formed |-> FALSE, windows_safe |-> FALSE]
    ELSE
      LET is_dot    == name = <<".">> \/ name = <<".", ".">>
          bad_start == \/ StartsWith(name, <<"/">>)
                       \/ StartsWith(name, <<".", "/">>)
                       \/ StartsWith(name, <<".", ".", "/">>)
          bad_end   == \/ EndsWith(name, <<"/", ".">>)
                       \/ EndsWith(name, <<"/", ".", ".">>)
          bad_mid   == \/ Contains(name, <<"/", "/">>)
                       \/ Contains(name, <<"/", ".", "/">>)
                       \/ Contains(name, <<"/", ".", ".", "/">>)
          bad       == is_dot \/ bad_start \/ bad_end \/ bad_mid
      IN  [well_formed  |-> ~bad,
           windows_safe |-> bad \/ ~Contains(name, <<"\\">>)]

check_name(name) ==
    IF name = <<>> THEN [well_formed |-> FALSE, windows_safe |-> FALSE]
    ELSE
      LET is_dot    == name = <<".">> \/ name = <<".", ".">>
          bad_start == \/ StartsWith(name, <<"/">>)
                       \/ StartsWith(name, <<".", "/">>)
                       \/ StartsWith(name, <<".", ".", "/">>)
          bad_end   == \/ EndsWith(name, <<"/", ".">>)
                       \/ EndsWith(name, <<"/", ".", ".">>)
          bad_mid   == \/ Contains(name, <<"/", "/">>)
                       \/ Contains(name, <<"/", ".", "/">>)
                       \/ Contains(name, <<"/", ".", ".", "/">>)
      IN  [well_formed  |-> ~(is_dot \/ bad_start \/ bad_end \/ bad_mid),
           windows_safe |-> ~Contains(name, <<"\\">>)]

(***************************************************************************)
(* Errors (CacheError)                                                     *)
(***************************************************************************)
NoError == [kind |-> "None", arg |-> <<>>, os |-> ""]

MalformedName(name) == [kind |-> "MalformedName", arg |-> name, os |-> ""]

UnsupportedFileType(ty) == [kind |-> "UnsupportedFileType", arg |-> <<>>, os |-> ty]

WriteOutsideDirectory(target) == [kind |-> "WriteOutsideDirectory", arg |-> target, os |-> ""]

LinkTargetDoesNotExist(target) == [kind |-> "LinkTargetDoesNotExist", arg |-> target, os |-> ""]

CycleDetected == [kind |-> "CycleDetected", arg |-> <<>>, os |-> ""]

Io(msg) == [kind |-> "Io", arg |-> <<>>, os |-> msg]

WindowsUnsafeName(name) == [kind |-> "WindowsUnsafeName", arg |-> name, os |-> ""]

(***************************************************************************)
(* canonicalize_name: the anchored path of an accepted name                *)
(***************************************************************************)
\* faulty variant of canonicalize_name: the verdict of check_name is ignored
canonicalize_name_Unchecked(name) ==
    [ok |-> TRUE, path |-> Components(name), err |-> NoError]

\* faulty variant of canonicalize_name: the name is split at its separators
\* and the piece after a trailing separator is kept
canonicalize_name_KeepsTrailingSlash(name) ==
    IF ~check_name(name).well_formed
    THEN [ok |-> FALSE, path |-> <<>>, err |-> MalformedName(name)]
    ELSE [ok |-> TRUE, path |-> SplitSlash(name), err |-> NoError]

\* faulty variant of canonicalize_name: the Windows build does not look at
\* windows_safe
canonicalize_name_IgnoresWindowsSafe(name) ==
    IF ~check_name(name).well_formed
    THEN [ok |-> FALSE, path |-> <<>>, err |-> MalformedName(name)]
    ELSE [ok |-> TRUE, path |-> Components(name), err |-> NoError]

canonicalize_name(name) ==
    IF ~check_name(name).well_formed
    THEN [ok |-> FALSE, path |-> <<>>, err |-> MalformedName(name)]
    ELSE IF windows /\ ~check_name(name).windows_safe
    THEN [ok |-> FALSE, path |-> <<>>, err |-> WindowsUnsafeName(name)]
    ELSE [ok |-> TRUE, path |-> Components(name), err |-> NoError]

(***************************************************************************)
(* Lexical canonicalization of a link target                               *)
(***************************************************************************)
RECURSIVE CleanFrom(_, _)
\* collapse `.` and `..` component-wise onto the absolute path acc; `..` at
\* the root stays at the root
CleanFrom(acc, comps) ==
    IF comps = <<>> THEN acc
    ELSE LET c == Head(comps)
         IN  IF c = <<".">> THEN CleanFrom(acc, Tail(comps))
             ELSE IF c = <<".", ".">>
                  THEN CleanFrom(IF acc = <<>> THEN acc ELSE Front(acc), Tail(comps))
                  ELSE CleanFrom(Append(acc, c), Tail(comps))

\* the characters that separate the components of a path on the host
Separators == IF windows THEN {"/", "\\"} ELSE {"/"}

\* raw with every separator of the host written as `/`
Slashed(raw) == [i \in 1..Len(raw) |-> IF raw[i] \in Separators THEN "/" ELSE raw[i]]

\* the non-empty pieces of a raw path
Pieces(raw) == SelectSeq(SplitSlash(Slashed(raw)), LAMBDA c : c # <<>>)

IsAbsolute(raw) == StartsWith(raw, <<"/">>)

\* faulty variant of canonicalize_linkname: the target is joined with the
\* anchor, not with the parent directory of the link
canonicalize_linkname_FromAnchor(anchor, processed_name, linkname) ==
    IF IsAbsolute(linkname) THEN CleanFrom(<<>>, Pieces(linkname))
    ELSE CleanFrom(<<>>, anchor \o Pieces(linkname))

\* faulty variant of canonicalize_linkname: `..` does not pop a component of
\* the anchor
canonicalize_linkname_Clamped(anchor, processed_name, linkname) ==
    IF IsAbsolute(linkname) THEN CleanFrom(<<>>, Pieces(linkname))
    ELSE anchor \o CleanFrom(<<>>, Front(processed_name) \o Pieces(linkname))

canonicalize_linkname(anchor, processed_name, linkname) ==
    IF IsAbsolute(linkname) THEN CleanFrom(<<>>, Pieces(linkname))
    ELSE CleanFrom(<<>>, anchor \o Front(processed_name) \o Pieces(linkname))

(***************************************************************************)
(* The host filesystem.  A filesystem is a function from the real location *)
(* of every existing object (a path with no symbolic link in it) to the    *)
(* object.  The anchor is a directory two levels below the root.           *)
(***************************************************************************)
TmpDir == <<"T">>

Anchor == <<TmpDir, <<"A">>>>

DirNode == [kind |-> "dir", body |-> 0, target |-> <<>>]

FileNode(body) == [kind |-> "file", body |-> body, target |-> <<>>]

LinkNode(target) == [kind |-> "link", body |-> 0, target |-> target]

\* the host before restore: the root and the directory that will hold the anchor
HostFs == (<<>> :> DirNode) @@ (<<TmpDir>> :> DirNode)

RECURSIVE Walk(_, _, _, _, _)
\* path resolution as the OS does it: from directory cur, component by
\* component, following every symbolic link met on the way and, when
\* followLast, the one the path ends in.  "absent": everything but the last
\* component exists, and path is where the last one would be
Walk(f, cur, rest, followLast, fuel) ==
    IF rest = <<>> THEN [status |-> "ok", path |-> cur]
    ELSE
      LET c == Head(rest)
          t == Tail(rest)
          child == Append(cur, c)
      IN  IF c = <<".">> THEN Walk(f, cur, t, followLast, fuel)
          ELSE IF c = <<".", ".">>
               THEN Walk(f, IF cur = <<>> THEN cur ELSE Front(cur), t, followLast, fuel)
          ELSE IF child \notin DOMAIN f
               THEN [status |-> IF t = <<>> THEN "absent" ELSE "ENOENT", path |-> child]
          ELSE IF f[child].kind = "dir" THEN Walk(f, child, t, followLast, fuel)
          ELSE IF f[child].kind = "file"
               THEN [status |-> IF t = <<>> THEN "ok" ELSE "ENOTDIR", path |-> child]
          ELSE IF t = <<>> /\ ~followLast THEN [status |-> "ok", path |-> child]
          ELSE IF fuel = 0 THEN [status |-> "ELOOP", path |-> child]
          ELSE Walk(f, IF IsAbsolute(f[child].target) THEN <<>> ELSE cur,
                    Pieces(f[child].target) \o t, followLast, fuel - 1)

\* stat(2) and lstat(2) of an absolute path
Stat(f, path) == Walk(f, <<>>, path, TRUE, MaxFollow)

Lstat(f, path) == Walk(f, <<>>, path, FALSE, MaxFollow)

\* faulty variant of MkdirAll: only the last component of path is made, its
\* parent has to be there
MkdirAll_NotRecursive(f, seen, path, k) ==
    LET l == Lstat(f, path)
        s == Stat(f, path)
    IN  IF k > Len(path) THEN [ok |-> TRUE, fs |-> f, touched |-> seen, err |-> NoError]
        ELSE IF l.status = "absent"
             THEN [ok |-> TRUE, fs |-> f @@ (l.path :> DirNode),
                   touched |-> seen \cup {path}, err |-> NoError]
        ELSE IF s.status = "ok" /\ f[s.path].kind = "dir"
             THEN [ok |-> TRUE, fs |-> f, touched |-> seen, err |-> NoError]
        ELSE [ok |-> FALSE, fs |-> f, touched |-> seen,
              err |-> Io(IF l.status = "ok" THEN "File exists" ELSE l.status)]

RECURSIVE MkdirAll(_, _, _, _)
\* fs::create_dir_all: every prefix of path longer than k - 1 components is
\* made a directory unless it already is one
MkdirAll(f, seen, path, k) ==
    IF k > Len(path) THEN [ok |-> TRUE, fs |-> f, touched |-> seen, err |-> NoError]
    ELSE
      LET prefix == SubSeq(path, 1, k)
          l == Lstat(f, prefix)
          s == Stat(f, prefix)
      IN  IF l.status = "absent"
          THEN MkdirAll(f @@ (l.path :> DirNode), seen \cup {prefix}, path, k + 1)
          ELSE IF s.status = "ok" /\ f[s.path].kind = "dir"
               THEN MkdirAll(f, seen, path, k + 1)
          ELSE [ok |-> FALSE, fs |-> f, touched |-> seen,
                err |-> Io(IF l.status = "ok" THEN "File exists" ELSE l.status)]

(***************************************************************************)
(* Per-kind restorers.  Each returns the filesystem it leaves, the lexical *)
(* paths it asked the OS to create, the anchored path and the error.       *)
(***************************************************************************)
Outcome(ok, path, f, seen, err) ==
    [ok |-> ok, path |-> path, fs |-> f, touched |-> seen, err |-> err]

restore_directory(anchor, f, seen, header) ==
    LET cn == canonicalize_name(header.name)
        m  == MkdirAll(f, seen, anchor \o cn.path, Len(anchor) + 1)
    IN  IF ~cn.ok THEN Outcome(FALSE, <<>>, f, seen, cn.err)
        ELSE Outcome(m.ok, cn.path, m.fs, m.touched, m.err)

restore_regular(anchor, f, seen, entry) ==
    LET cn == canonicalize_name(entry.name)
        full == anchor \o cn.path
        m  == MkdirAll(f, seen, Front(full), Len(anchor) + 1)
        r  == Stat(m.fs, full)
    IN  IF ~cn.ok THEN Outcome(FALSE, <<>>, f, seen, cn.err)
        ELSE IF ~m.ok THEN Outcome(FALSE, cn.path, m.fs, m.touched, m.err)
        ELSE IF r.status = "absent"
             THEN Outcome(TRUE, cn.path, m.fs @@ (r.path :> FileNode(entry.body)),
                          m.touched \cup {full}, NoError)
        ELSE IF r.status = "ok" /\ m.fs[r.path].kind = "file"
             THEN Outcome(TRUE, cn.path, [m.fs EXCEPT ![r.path] = FileNode(entry.body)],
                          m.touched \cup {full}, NoError)
        ELSE Outcome(FALSE, cn.path, m.fs, m.touched,
                     Io(IF r.status = "ok" THEN "Is a directory" ELSE r.status))

\* remove whatever non-directory is at the link's place, make its parent and
\* create the link with the raw target of the header
actually_restore_symlink(anchor, f, seen, processed_name, header) ==
    LET full == anchor \o processed_name
        m == MkdirAll(f, seen, Front(full), Len(anchor) + 1)
        l == Lstat(m.fs, full)
    IN  IF ~m.ok THEN Outcome(FALSE, processed_name, m.fs, m.touched, m.err)
        ELSE IF l.status = "absent"
             THEN Outcome(TRUE, processed_name, m.fs @@ (l.path :> LinkNode(header.link)),
                          m.touched \cup {full}, NoError)
        ELSE IF l.status = "ok" /\ m.fs[l.path].kind # "dir"
             THEN Outcome(TRUE, processed_name,
                          [m.fs EXCEPT ![l.path] = LinkNode(header.link)],
                          m.touched \cup {full}, NoError)
        ELSE Outcome(FALSE, processed_name, m.fs, m.touched,
                     Io(IF l.status = "ok" THEN "File exists" ELSE l.status))

restore_symlink(anchor, f, seen, header) ==
    LET cn == canonicalize_name(header.name)
        processed_linkname == canonicalize_linkname(anchor, cn.path, header.link)
    IN  IF ~cn.ok THEN Outcome(FALSE, <<>>, f, seen, cn.err)
        ELSE IF ~IsPrefix(anchor, processed_linkname)
             THEN Outcome(FALSE, cn.path, f, seen, WriteOutsideDirectory(header.link))
        ELSE IF Lstat(f, processed_linkname).status # "ok"
             THEN Outcome(FALSE, cn.path, f, seen, LinkTargetDoesNotExist(header.link))
        ELSE actually_restore_symlink(anchor, f, seen, cn.path, header)

restore_symlink_with_missing_target(anchor, f, seen, header) ==
    LET cn == canonicalize_name(header.name)
    IN  IF ~cn.ok THEN Outcome(FALSE, <<>>, f, seen, cn.err)
        ELSE actually_restore_symlink(anchor, f, seen, cn.path, header)

\* faulty variant of restore_entry: every other entry type is restored as a
\* regular file
restore_entry_DefaultRegular(anchor, f, seen, entry) ==
    IF entry.kind = "Directory" THEN restore_directory(anchor, f, seen, entry)
    ELSE IF entry.kind = "Symlink" THEN restore_symlink(anchor, f, seen, entry)
    ELSE restore_regular(anchor, f, seen, entry)

\* faulty variant of restore_entry: a regular file goes to the directory
\* restorer
restore_entry_RegularAsDirectory(anchor, f, seen, entry) ==
    IF entry.kind \in {"Directory", "Regular"} THEN restore_directory(anchor, f, seen, entry)
    ELSE IF entry.kind = "Symlink" THEN restore_symlink(anchor, f, seen, entry)
    ELSE Outcome(FALSE, <<>>, f, seen, UnsupportedFileType(entry.kind))

\* faulty variant of restore_entry: a regular file whose place already holds
\* a file is taken as restored
restore_entry_KeepsExistingFile(anchor, f, seen, entry) ==
    LET cn == canonicalize_name(entry.name)
        at == Stat(f, anchor \o cn.path)
    IN  IF entry.kind = "Directory" THEN restore_directory(anchor, f, seen, entry)
        ELSE IF entry.kind = "Regular"
        THEN IF cn.ok /\ at.status = "ok" /\ f[at.path].kind = "file"
             THEN Outcome(TRUE, cn.path, f, seen, NoError)
             ELSE restore_regular(anchor, f, seen, entry)
        ELSE IF entry.kind = "Symlink" THEN restore_symlink(anchor, f, seen, entry)
        ELSE Outcome(FALSE, <<>>, f, seen, UnsupportedFileType(entry.kind))

\* faulty variant of restore_entry: a link is made in pass 1 whether or not
\* its target is there
restore_entry_LinksWithMissingTarget(anchor, f, seen, entry) ==
    IF entry.kind = "Directory" THEN restore_directory(anchor, f, seen, entry)
    ELSE IF entry.kind = "Regular" THEN restore_regular(anchor, f, seen, entry)
    ELSE IF entry.kind = "Symlink"
    THEN restore_symlink_with_missing_target(anchor, f, seen, entry)
    ELSE Outcome(FALSE, <<>>, f, seen, UnsupportedFileType(entry.kind))

\* faulty variant of restore_entry: the name is validated before the entry
\* type is looked at
restore_entry_ValidatesFirst(anchor, f, seen, entry) ==
    IF ~canonicalize_name(entry.name).ok
    THEN Outcome(FALSE, <<>>, f, seen, canonicalize_name(entry.name).err)
    ELSE IF entry.kind = "Directory" THEN restore_directory(anchor, f, seen, entry)
    ELSE IF entry.kind = "Regular" THEN restore_regular(anchor, f, seen, entry)
    ELSE IF entry.kind = "Symlink" THEN restore_symlink(anchor, f, seen, entry)
    ELSE Outcome(FALSE, <<>>, f, seen, UnsupportedFileType(entry.kind))

\* faulty variant of restore_entry: a directory that is already there is an
\* error
restore_entry_DirectoryMustBeNew(anchor, f, seen, entry) ==
    LET cn == canonicalize_name(entry.name)
    IN  IF entry.kind = "Directory"
        THEN IF cn.ok /\ Lstat(f, anchor \o cn.path).status = "ok"
             THEN Outcome(FALSE, cn.path, f, seen, Io("File exists"))
             ELSE restore_directory(anchor, f, seen, entry)
        ELSE IF entry.kind = "Regular" THEN restore_regular(anchor, f, seen, entry)
        ELSE IF entry.kind = "Symlink" THEN restore_symlink(anchor, f, seen, entry)
        ELSE Outcome(FALSE, <<>>, f, seen, UnsupportedFileType(entry.kind))

\* the dispatch on the entry type
restore_entry(anchor, f, seen, entry) ==
    IF entry.kind = "Directory" THEN restore_directory(anchor, f, seen, entry)
    ELSE IF entry.kind = "Regular" THEN restore_regular(anchor, f, seen, entry)
    ELSE IF entry.kind = "Symlink" THEN restore_symlink(anchor, f, seen, entry)
    ELSE Outcome(FALSE, <<>>, f, seen, UnsupportedFileType(entry.kind))

(***************************************************************************)
(* Pass 2: the dependency graph of the deferred links and its toposort     *)
(***************************************************************************)
IndexOf(seq, x) == CHOOSE i \in 1..Len(seq) : seq[i] = x

InSeq(seq, x) == \E i \in 1..Len(seq) : seq[i] = x

AddNode(nodes, key) == IF InSeq(nodes, key) THEN nodes ELSE Append(nodes, key)

\* the graph key of a deferred link's own name
SourceKey(anchor, entry) ==
    LET processed_name == canonicalize_name(entry.name).path
    IN  canonicalize_linkname(anchor, processed_name, JoinSlash(processed_name))

\* the graph key of a deferred link's target
TargetKey(anchor, entry) ==
    canonicalize_linkname(anchor, canonicalize_name(entry.name).path, entry.link)

EmptyGraph == [nodes |-> <<>>, edges |-> <<>>, header_lookup |-> <<>>]

RECURSIVE BuildGraph_ReversedEdges(_, _, _)
\* faulty variant of BuildGraph: the edge runs from the target to the source
BuildGraph_ReversedEdges(anchor, symlinks, g) ==
    IF symlinks = <<>> THEN g
    ELSE
      LET entry == Head(symlinks)
          processed_sourcename == SourceKey(anchor, entry)
          processed_linkname == TargetKey(anchor, entry)
          nodes == AddNode(AddNode(g.nodes, processed_sourcename), processed_linkname)
          edge == <<IndexOf(nodes, processed_linkname), IndexOf(nodes, processed_sourcename)>>
      IN  BuildGraph_ReversedEdges(anchor, Tail(symlinks),
                     [nodes |-> nodes,
                      edges |-> Append(g.edges, edge),
                      header_lookup |-> (processed_sourcename :> entry) @@ g.header_lookup])

RECURSIVE BuildGraph_KeepsFirstHeader(_, _, _)
\* faulty variant of BuildGraph: the first header of a source key survives
BuildGraph_KeepsFirstHeader(anchor, symlinks, g) ==
    IF symlinks = <<>> THEN g
    ELSE
      LET entry == Head(symlinks)
          processed_sourcename == SourceKey(anchor, entry)
          processed_linkname == TargetKey(anchor, entry)
          nodes == AddNode(AddNode(g.nodes, processed_sourcename), processed_linkname)
          edge == <<IndexOf(nodes, processed_sourcename), IndexOf(nodes, processed_linkname)>>
      IN  BuildGraph_KeepsFirstHeader(anchor, Tail(symlinks),
                     [nodes |-> nodes,
                      edges |-> Append(g.edges, edge),
                      header_lookup |-> g.header_lookup @@ (processed_sourcename :> entry)])

RECURSIVE BuildGraph(_, _, _)
\* the first loop of topologically_restore_symlinks: nodes are deduplicated
\* by key, every entry adds an edge, the last header of a source key survives
BuildGraph(anchor, symlinks, g) ==
    IF symlinks = <<>> THEN g
    ELSE
      LET entry == Head(symlinks)
          processed_sourcename == SourceKey(anchor, entry)
          processed_linkname == TargetKey(anchor, entry)
          nodes == AddNode(AddNode(g.nodes, processed_sourcename), processed_linkname)
          edge == <<IndexOf(nodes, processed_sourcename), IndexOf(nodes, processed_linkname)>>
      IN  BuildGraph(anchor, Tail(symlinks),
                     [nodes |-> nodes,
                      edges |-> Append(g.edges, edge),
                      header_lookup |-> (processed_sourcename :> entry) @@ g.header_lookup])

RECURSIVE Neighbors(_, _)
\* the successors of node n, the most recently added edge first
Neighbors(edges, n) ==
    IF edges = <<>> THEN <<>>
    ELSE LET e == Last(edges)
         IN  IF e[1] = n THEN <<e[2]>> \o Neighbors(Front(edges), n)
             ELSE Neighbors(Front(edges), n)

RECURSIVE PushNeighbors(_, _, _, _)
\* push the undiscovered successors of nx; a successor equal to nx is a cycle
PushNeighbors(stack, succs, nx, discovered) ==
    IF succs = <<>> THEN [cycle |-> FALSE, stack |-> stack]
    ELSE IF Head(succs) = nx THEN [cycle |-> TRUE, stack |-> stack]
    ELSE PushNeighbors(IF Head(succs) \in discovered THEN stack ELSE Append(stack, Head(succs)),
                       Tail(succs), nx, discovered)

RECURSIVE DfsLoop(_, _)
\* the inner loop of toposort: a node is discovered the first time it is on
\* top of the stack and finished the second time
DfsLoop(edges, st) ==
    IF st.cycle \/ st.stack = <<>> THEN st
    ELSE
      LET nx == Last(st.stack)
      IN  IF nx \notin st.discovered
          THEN LET disc == st.discovered \cup {nx}
                   p == PushNeighbors(st.stack, Neighbors(edges, nx), nx, disc)
               IN  DfsLoop(edges, [st EXCEPT !.discovered = disc, !.stack = p.stack,
                                              !.cycle = p.cycle])
          ELSE DfsLoop(edges,
                       [st EXCEPT !.stack = Front(st.stack),
                                  !.finished = st.finished \cup {nx},
                                  !.finish_stack = IF nx \in st.finished THEN st.finish_stack
                                                   ELSE Append(st.finish_stack, nx)])

RECURSIVE DfsAll(_, _, _, _)
\* the outer loop of toposort over the node indices in insertion order
DfsAll(edges, n, i, st) ==
    IF st.cycle \/ i > n THEN st
    ELSE IF i \in st.discovered THEN DfsAll(edges, n, i + 1, st)
    ELSE DfsAll(edges, n, i + 1, DfsLoop(edges, [st EXCEPT !.stack = <<i>>]))

Reverse(seq) == [i \in 1..Len(seq) |-> seq[Len(seq) + 1 - i]]

\* faulty variant of toposort: the finish order is returned as it is
toposort_NotReversed(g) ==
    LET st == DfsAll(g.edges, Len(g.nodes), 1,
                     [stack |-> <<>>, discovered |-> {}, finished |-> {},
                      finish_stack |-> <<>>, cycle |-> FALSE])
        sorted == Reverse(st.finish_stack)
        back == \E k \in 1..Len(sorted) : \E i \in 1..Len(g.edges) :
                   /\ g.edges[i][2] = sorted[k]
                   /\ \A j \in 1..(k - 1) : sorted[j] # g.edges[i][1]
    IN  IF st.cycle \/ back THEN [ok |-> FALSE, nodes |-> <<>>]
        ELSE [ok |-> TRUE,
              nodes |-> [k \in 1..Len(sorted) |-> g.nodes[st.finish_stack[k]]]]

\* petgraph::algo::toposort: the reversed finish order, or a cycle when a
\* node of that order has a predecessor that does not come before it
toposort(g) ==
    LET st == DfsAll(g.edges, Len(g.nodes), 1,
                     [stack |-> <<>>, discovered |-> {}, finished |-> {},
                      finish_stack |-> <<>>, cycle |-> FALSE])
        sorted == Reverse(st.finish_stack)
        back == \E k \in 1..Len(sorted) : \E i \in 1..Len(g.edges) :
                   /\ g.edges[i][2] = sorted[k]
                   /\ \A j \in 1..(k - 1) : sorted[j] # g.edges[i][1]
    IN  IF st.cycle \/ back THEN [ok |-> FALSE, nodes |-> <<>>]
        ELSE [ok |-> TRUE, nodes |-> [k \in 1..Len(sorted) |-> g.nodes[sorted[k]]]]

(***************************************************************************)
(* Archive entries the reader can yield                                    *)
(***************************************************************************)
Directory(name) == [kind |-> "Directory", name |-> name, link |-> <<>>, body |-> 0]

Regular(name, body) == [kind |-> "Regular", name |-> name, link |-> <<>>, body |-> body]

Symlink(name, target) == [kind |-> "Symlink", name |-> name, link |-> target, body |-> 0]

Fifo(name) == [kind |-> "Fifo", name |-> name, link |-> <<>>, body |-> 0]

EntryPool ==
    { Directory(<<"d", "/">>),
      Regular(<<"d", "/", "f">>, 1),
      Regular(<<"r">>, 1),
      Regular(<<"d">>, 1),
      Symlink(<<"o">>, <<"w">>),
      Symlink(<<"w">>, <<"o">>),
      Symlink(<<"w">>, <<"r">>),
      Symlink(<<"d", "/", "a">>, <<"b">>),
      Symlink(<<"d", "/", "b">>, <<"a">>),
      Symlink(<<"s">>, <<".">>),
      Symlink(<<"t">>, <<"s", "/", ".", ".">>),
      Regular(<<"t", "/", "x">>, 1),
      Symlink(<<"d", "/", "l">>, <<".", ".", "/">>),
      Regular(<<"d", "/", "l", "/", "g">>, 1),
      Symlink(<<"e">>, <<".", ".", "/">>),
      Symlink(<<"k">>, <<"/", "T">>),
      Regular(<<".", ".", "/", "e">>, 1),
      Directory(<<".", "/", "d">>),
      Symlink(<<"a", "/", ".", ".", "/", "b">>, <<"r">>),
      Fifo(<<"q">>),
      Fifo(<<".", ".", "/", "x">>),
      Regular(<<"b", "\\", "c">>, 1),
      Regular(<<"r">>, 2),
      Regular(<<"w">>, 1) }

(***************************************************************************)
(* The restore call                                                        *)
(***************************************************************************)
VARIABLES
    pc,                \* "new", "pass1", "pass2", "done" or "failed"
    fs,                \* the host filesystem
    touched,           \* the lexical paths restore asked the OS to create
    archive,           \* the entries read from the archive so far
    symlinks,          \* the entries deferred in pass 1
    restored,          \* the list returned to the caller
    header_lookup,     \* pass 2: source key -> header
    order,             \* pass 2: the toposorted keys not yet visited
    restored_symlinks, \* pass 2: the links materialized so far
    err,               \* the error returned, NoError while there is none
    npc,               \* name validation: the calls made so far on raw_name
    raw_name,          \* name validation: the entry name under validation
    validation,        \* name validation: what check_name returned
    canonical,         \* name validation: canonicalize_name(raw_name)
    with_slash,        \* name validation: canonicalize_name(raw_name + "/")
    again,             \* name validation: canonicalize_name of canonical
    calls,             \* concurrent restores: the state of each call
    pfs,               \* concurrent restores: the filesystem they share
    link_pc,           \* link canonicalization: "idle", "input" or "done"
    link_source,       \* link canonicalization: the anchored name of the link
    link_target,       \* link canonicalization: the raw target of the link
    link_canonical,    \* link canonicalization: the canonicalized target
    hash_pc,           \* package hashing: "idle", "input", "walking" or "done"
    tree,              \* package hashing: the files on disk below turbo_root
    inputs,            \* package hashing: the patterns given by the caller
    walker,            \* package hashing: the entries the walk has yet to yield
    hashes             \* package hashing: the map built so far

rvars == <<pc, fs, touched, archive, symlinks, restored, header_lookup, order,
           restored_symlinks, err, windows>>
nvars == <<npc, raw_name, validation, canonical, with_slash, again>>
pvars == <<calls, pfs>>
lvars == <<link_pc, link_source, link_target, link_canonical>>
hvars == <<hash_pc, tree, inputs, walker, hashes>>
vars == <<rvars, nvars, pvars, lvars, hvars>>

\* no name is under validation
NameIdle ==
    /\ npc = "idle"
    /\ raw_name = <<>>
    /\ validation = check_name(<<>>)
    /\ canonical = canonicalize_name(<<>>)
    /\ with_slash = canonical
    /\ again = canonical

\* no concurrent restore is running
ParIdle ==
    /\ calls = <<>>
    /\ pfs = HostFs

\* no link target is under canonicalization
LinkIdle ==
    /\ link_pc = "idle"
    /\ link_source = <<>>
    /\ link_target = <<>>
    /\ link_canonical = <<>>

\* no package is being hashed
HashIdle ==
    /\ hash_pc = "idle"
    /\ tree = {}
    /\ inputs = <<>>
    /\ walker = <<>>
    /\ hashes = <<>>

Init ==
    /\ windows = FALSE
    /\ pc = "new"
    /\ fs = HostFs
    /\ touched = {}
    /\ archive = <<>>
    /\ symlinks = <<>>
    /\ restored = <<>>
    /\ header_lookup = <<>>
    /\ order = <<>>
    /\ restored_symlinks = <<>>
    /\ err = NoError
    /\ NameIdle
    /\ ParIdle
    /\ LinkIdle
    /\ HashIdle

\* restore: the anchor is made before the archive is read
Start ==
    /\ pc = "new"
    /\ LET m == MkdirAll(fs, touched, Anchor, 1)
       IN  /\ fs' = m.fs
           /\ pc' = IF m.ok THEN "pass1" ELSE "failed"
           /\ err' = m.err
    /\ UNCHANGED <<touched, archive, symlinks, restored, header_lookup, order,
                   restored_symlinks>>
    /\ UNCHANGED <<nvars, pvars, lvars, hvars, windows>>

\* faulty variant of ReadEntry: a link whose target is outside the anchor is
\* deferred as one whose target is missing
ReadEntry_DefersEscapingLink(entry) ==
    /\ pc = "pass1"
    /\ Len(archive) < MaxEntries
    /\ archive' = Append(archive, entry)
    /\ LET r == restore_entry(Anchor, fs, touched, entry)
       IN  IF r.ok
           THEN /\ restored' = Append(restored, r.path)
                /\ fs' = r.fs
                /\ touched' = r.touched
                /\ UNCHANGED <<pc, symlinks, err>>
           ELSE IF r.err.kind \in {"LinkTargetDoesNotExist", "WriteOutsideDirectory"}
           THEN /\ symlinks' = Append(symlinks, entry)
                /\ UNCHANGED <<pc, fs, touched, restored, err>>
           ELSE /\ pc' = "failed"
                /\ err' = r.err
                /\ fs' = r.fs
                /\ touched' = r.touched
                /\ UNCHANGED <<symlinks, restored>>
    /\ UNCHANGED <<header_lookup, order, restored_symlinks>>
    /\ UNCHANGED <<nvars, pvars, lvars, hvars, windows>>

\* faulty variant of ReadEntry: every error of an entry defers the entry
ReadEntry_DefersAnyError(entry) ==
    /\ pc = "pass1"
    /\ Len(archive) < MaxEntries
    /\ archive' = Append(archive, entry)
    /\ LET r == restore_entry(Anchor, fs, touched, entry)
       IN  IF r.ok
           THEN /\ restored' = Append(restored, r.path)
                /\ fs' = r.fs
                /\ touched' = r.touched
                /\ UNCHANGED <<pc, symlinks, err>>
           ELSE /\ symlinks' = Append(symlinks, entry)
                /\ UNCHANGED <<pc, fs, touched, restored, err>>
    /\ UNCHANGED <<header_lookup, order, restored_symlinks>>
    /\ UNCHANGED <<nvars, pvars, lvars, hvars, windows>>

\* faulty variant of ReadEntry: an entry that fails is skipped and the loop
\* goes on
ReadEntry_SkipsFailedEntry(entry) ==
    /\ pc = "pass1"
    /\ Len(archive) < MaxEntries
    /\ archive' = Append(archive, entry)
    /\ LET r == restore_entry(Anchor, fs, touched, entry)
       IN  IF r.ok
           THEN /\ restored' = Append(restored, r.path)
                /\ fs' = r.fs
                /\ touched' = r.touched
                /\ UNCHANGED <<pc, symlinks, err>>
           ELSE IF r.err.kind = "LinkTargetDoesNotExist"
           THEN /\ symlinks' = Append(symlinks, entry)
                /\ UNCHANGED <<pc, fs, touched, restored, err>>
           ELSE /\ fs' = r.fs
                /\ touched' = r.touched
                /\ UNCHANGED <<pc, err, symlinks, restored>>
    /\ UNCHANGED <<header_lookup, order, restored_symlinks>>
    /\ UNCHANGED <<nvars, pvars, lvars, hvars, windows>>

\* faulty variant of ReadEntry: LinkTargetDoesNotExist is returned like every
\* other error
ReadEntry_ReturnsMissingTarget(entry) ==
    /\ pc = "pass1"
    /\ Len(archive) < MaxEntries
    /\ archive' = Append(archive, entry)
    /\ LET r == restore_entry(Anchor, fs, touched, entry)
       IN  IF r.ok
           THEN /\ restored' = Append(restored, r.path)
                /\ fs' = r.fs
                /\ touched' = r.touched
                /\ UNCHANGED <<pc, symlinks, err>>
           ELSE /\ pc' = "failed"
                /\ err' = r.err
                /\ fs' = r.fs
                /\ touched' = r.touched
                /\ UNCHANGED <<symlinks, restored>>
    /\ UNCHANGED <<header_lookup, order, restored_symlinks>>
    /\ UNCHANGED <<nvars, pvars, lvars, hvars, windows>>

\* one iteration of the loop of restore_entries over the archive
ReadEntry(entry) ==
    /\ pc = "pass1"
    /\ Len(archive) < MaxEntries
    /\ archive' = Append(archive, entry)
    /\ LET r == restore_entry(Anchor, fs, touched, entry)
       IN  IF r.ok
           THEN /\ restored' = Append(restored, r.path)
                /\ fs' = r.fs
                /\ touched' = r.touched
                /\ UNCHANGED <<pc, symlinks, err>>
           ELSE IF r.err.kind = "LinkTargetDoesNotExist"
           THEN /\ symlinks' = Append(symlinks, entry)
                /\ UNCHANGED <<pc, fs, touched, restored, err>>
           ELSE /\ pc' = "failed"
                /\ err' = r.err
                /\ fs' = r.fs
                /\ touched' = r.touched
                /\ UNCHANGED <<symlinks, restored>>
    /\ UNCHANGED <<header_lookup, order, restored_symlinks>>
    /\ UNCHANGED <<nvars, pvars, lvars, hvars, windows>>

\* faulty variant of ReadFails: what pass 1 materialized is removed before the
\* error is returned
ReadFails_RollsBack ==
    /\ pc = "pass1"
    /\ pc' = "failed"
    /\ err' = Io("unexpected end of file")
    /\ fs' = HostFs @@ (Anchor :> DirNode)
    /\ UNCHANGED <<touched, archive, symlinks, restored>>
    /\ UNCHANGED <<header_lookup, order, restored_symlinks>>
    /\ UNCHANGED <<nvars, pvars, lvars, hvars, windows>>

\* the iterator over the archive yields an error instead of the next entry:
\* `entry?` returns it from restore_entries, converted to CacheError::Io
ReadFails ==
    /\ pc = "pass1"
    /\ pc' = "failed"
    /\ err' = Io("unexpected end of file")
    /\ UNCHANGED <<fs, touched, archive, symlinks, restored>>
    /\ UNCHANGED <<header_lookup, order, restored_symlinks>>
    /\ UNCHANGED <<nvars, pvars, lvars, hvars, windows>>

\* faulty variant of SortDeferred: the first deferred link is made before the
\* graph is sorted
SortDeferred_LinksBeforeSort ==
    /\ pc = "pass1"
    /\ LET g == BuildGraph(Anchor, symlinks, EmptyGraph)
           sorted == toposort(g)
           r == restore_symlink_with_missing_target(Anchor, fs, touched, Head(symlinks))
       IN  IF sorted.ok
           THEN /\ pc' = "pass2"
                /\ header_lookup' = g.header_lookup
                /\ order' = sorted.nodes
                /\ UNCHANGED <<err, fs, touched>>
           ELSE /\ pc' = "failed"
                /\ err' = CycleDetected
                /\ fs' = r.fs
                /\ touched' = r.touched
                /\ UNCHANGED <<header_lookup, order>>
    /\ UNCHANGED <<archive, symlinks, restored, restored_symlinks>>
    /\ UNCHANGED <<nvars, pvars, lvars, hvars, windows>>

\* the archive is exhausted: topologically_restore_symlinks builds the graph
\* and sorts it
SortDeferred ==
    /\ pc = "pass1"
    /\ LET g == BuildGraph(Anchor, symlinks, EmptyGraph)
           sorted == toposort(g)
       IN  IF sorted.ok
           THEN /\ pc' = "pass2"
                /\ header_lookup' = g.header_lookup
                /\ order' = sorted.nodes
                /\ UNCHANGED err
           ELSE /\ pc' = "failed"
                /\ err' = CycleDetected
                /\ UNCHANGED <<header_lookup, order>>
    /\ UNCHANGED <<fs, touched, archive, symlinks, restored, restored_symlinks>>
    /\ UNCHANGED <<nvars, pvars, lvars, hvars, windows>>

\* faulty variant of RestoreDeferred: the link is created with the
\* canonicalized target in place of the target of the header
RestoreDeferred_CanonicalTarget ==
    /\ pc = "pass2"
    /\ order # <<>>
    /\ order' = Tail(order)
    /\ IF Head(order) \notin DOMAIN header_lookup
       THEN UNCHANGED <<pc, fs, touched, restored_symlinks, err>>
       ELSE LET header == header_lookup[Head(order)]
                r == restore_symlink_with_missing_target(Anchor, fs, touched,
                         [header EXCEPT !.link = <<"/">> \o JoinSlash(TargetKey(Anchor, header))])
            IN  /\ fs' = r.fs
                /\ touched' = r.touched
                /\ IF r.ok
                   THEN /\ restored_symlinks' = Append(restored_symlinks, r.path)
                        /\ UNCHANGED <<pc, err>>
                   ELSE /\ pc' = "failed"
                        /\ err' = r.err
                        /\ UNCHANGED restored_symlinks
    /\ UNCHANGED <<archive, symlinks, restored, header_lookup>>
    /\ UNCHANGED <<nvars, pvars, lvars, hvars, windows>>

\* faulty variant of RestoreDeferred: the link is restored as in pass 1, its
\* target has to be on disk
RestoreDeferred_ProbesTarget ==
    /\ pc = "pass2"
    /\ order # <<>>
    /\ order' = Tail(order)
    /\ IF Head(order) \notin DOMAIN header_lookup
       THEN UNCHANGED <<pc, fs, touched, restored_symlinks, err>>
       ELSE LET r == restore_symlink(Anchor, fs, touched, header_lookup[Head(order)])
            IN  /\ fs' = r.fs
                /\ touched' = r.touched
                /\ IF r.ok
                   THEN /\ restored_symlinks' = Append(restored_symlinks, r.path)
                        /\ UNCHANGED <<pc, err>>
                   ELSE /\ pc' = "failed"
                        /\ err' = r.err
                        /\ UNCHANGED restored_symlinks
    /\ UNCHANGED <<archive, symlinks, restored, header_lookup>>
    /\ UNCHANGED <<nvars, pvars, lvars, hvars, windows>>

\* one iteration of the loop over the sorted nodes
RestoreDeferred ==
    /\ pc = "pass2"
    /\ order # <<>>
    /\ order' = Tail(order)
    /\ IF Head(order) \notin DOMAIN header_lookup
       THEN UNCHANGED <<pc, fs, touched, restored_symlinks, err>>
       ELSE LET r == restore_symlink_with_missing_target(Anchor, fs, touched, header_lookup[Head(order)])
            IN  /\ fs' = r.fs
                /\ touched' = r.touched
                /\ IF r.ok
                   THEN /\ restored_symlinks' = Append(restored_symlinks, r.path)
                        /\ UNCHANGED <<pc, err>>
                   ELSE /\ pc' = "failed"
                        /\ err' = r.err
                        /\ UNCHANGED restored_symlinks
    /\ UNCHANGED <<archive, symlinks, restored, header_lookup>>
    /\ UNCHANGED <<nvars, pvars, lvars, hvars, windows>>

\* faulty variant of Finish: the pass-2 list is not appended
Finish_DropsDeferred ==
    /\ pc = "pass2"
    /\ order = <<>>
    /\ pc' = "done"
    /\ UNCHANGED <<fs, touched, archive, symlinks, restored, header_lookup, order,
                   restored_symlinks, err>>
    /\ UNCHANGED <<nvars, pvars, lvars, hvars, windows>>

\* faulty variant of Finish: the pass-2 list is put in front
Finish_Prepends ==
    /\ pc = "pass2"
    /\ order = <<>>
    /\ restored' = restored_symlinks \o restored
    /\ pc' = "done"
    /\ UNCHANGED <<fs, touched, archive, symlinks, header_lookup, order,
                   restored_symlinks, err>>
    /\ UNCHANGED <<nvars, pvars, lvars, hvars, windows>>

\* the sorted nodes are exhausted: the pass-2 list is appended and returned
Finish ==
    /\ pc = "pass2"
    /\ order = <<>>
    /\ restored' = restored \o restored_symlinks
    /\ pc' = "done"
    /\ UNCHANGED <<fs, touched, archive, symlinks, header_lookup, order,
                   restored_symlinks, err>>
    /\ UNCHANGED <<nvars, pvars, lvars, hvars, windows>>

Next ==
    \/ Start
    \/ \E entry \in EntryPool : ReadEntry(entry)
    \/ ReadFails
    \/ SortDeferred
    \/ RestoreDeferred
    \/ Finish

Spec == Init /\ [][Next]_vars

\* the same restore, the program being built for either host
HostInit ==
    /\ windows \in BOOLEAN
    /\ pc = "new"
    /\ fs = HostFs
    /\ touched = {}
    /\ archive = <<>>
    /\ symlinks = <<>>
    /\ restored = <<>>
    /\ header_lookup = <<>>
    /\ order = <<>>
    /\ restored_symlinks = <<>>
    /\ err = NoError
    /\ NameIdle
    /\ ParIdle
    /\ LinkIdle
    /\ HashIdle

HostSpec == HostInit /\ [][Next]_vars

(***************************************************************************)
(* Verification                                                            *)
(***************************************************************************)
Supported == {"Directory", "Regular", "Symlink"}

\* the anchored path of an entry with a well-formed name
NameOf(entry) == canonicalize_name(entry.name).path

\* the absolute place at which an entry is created
PlaceOf(entry) == Anchor \o NameOf(entry)

StrictlyBelowAnchor(path) == IsPrefix(Anchor, path) /\ Len(path) > Len(Anchor)

\* the step reads one more entry of the archive
ReadsEntry == pc = "pass1" /\ Len(archive') = Len(archive) + 1

EntryRead == archive'[Len(archive')]

Ended == pc \in {"done", "failed"}

\* C1. Anchor containment (lexical): in every state of a restore, ended or
\* not, failed or not, every path that restore asked the OS to create
\* normalizes lexically to a proper descendant of the anchor.
C1_LexicalContainment ==
    \A p \in touched : StrictlyBelowAnchor(CleanFrom(<<>>, p))

\* a restore that failed after it had created a file two levels down
C1_Witness ==
    /\ pc = "failed"
    /\ \E p \in touched : Len(p) = Len(Anchor) + 2

\* C2. Anchor containment (resolved): every object restore creates is, at its
\* real location (symbolic links followed as the OS follows them), a
\* descendant of the anchor.
C2_ResolvedContainment ==
    \A p \in DOMAIN fs : p \in DOMAIN HostFs \/ IsPrefix(Anchor, p)

\* C3. An entry of a supported kind with an ill-formed name fails the restore
\* with MalformedName carrying the raw name; nothing is created, listed or
\* deferred for it, and no step follows a failure.
C3_MalformedNameFails ==
    [][/\ pc # "failed"
       /\ (ReadsEntry /\ EntryRead.kind \in Supported
                      /\ ~check_name(EntryRead.name).well_formed)
           => /\ pc' = "failed"
              /\ err' = MalformedName(EntryRead.name)
              /\ fs' = fs /\ touched' = touched
              /\ restored' = restored /\ symlinks' = symlinks]_vars

\* a restore stopped by `../e` after it had materialized an entry and
\* deferred another
C3_Witness ==
    /\ pc = "failed"
    /\ err = MalformedName(<<".", ".", "/", "e">>)
    /\ restored # <<>>
    /\ symlinks # <<>>

\* deferred links i and j where the target of i, resolved relative to the
\* parent directory of i, is the place of j
PointsAt(i, j) ==
    canonicalize_linkname(Anchor, NameOf(symlinks[i]), symlinks[i].link) = PlaceOf(symlinks[j])

RECURSIVE ReachFrom(_, _)
\* the deferred links reachable from those of set by following targets
ReachFrom(set, n) ==
    IF n = 0 THEN set
    ELSE ReachFrom(set \cup {j \in DOMAIN symlinks : \E i \in set : PointsAt(i, j)}, n - 1)

DeferredCycle ==
    \E i \in DOMAIN symlinks :
        i \in ReachFrom({j \in DOMAIN symlinks : PointsAt(i, j)}, Len(symlinks))

\* C4. Cycle detection: when deferred links form a cycle, at any depth under
\* the anchor, restore fails with CycleDetected, so pass 2 is never entered.
C4_CycleDetected ==
    (pc \in {"pass2", "done"}) => ~DeferredCycle

\* the last entry of the archive that has the source name of entry
LastWithName(entry) ==
    LET same == {i \in DOMAIN archive : /\ archive[i].kind = "Symlink"
                                        /\ archive[i].name = entry.name}
    IN  archive[CHOOSE i \in same : \A j \in same : j <= i]

Clobbered(i) ==
    /\ archive[i].kind = "Symlink"
    /\ \E j \in DOMAIN archive : j # i /\ archive[j].kind = "Symlink"
                                       /\ archive[j].name = archive[i].name

\* C5. Clobber: after a successful restore of an archive in which several
\* symlink entries share a source name, the link on disk at that name has the
\* target of the last of them in archive order.
C5_LastLinkWins ==
    pc = "done" =>
        \A i \in DOMAIN archive : Clobbered(i) =>
            LET l == Lstat(fs, PlaceOf(archive[i]))
            IN  /\ l.status = "ok"
                /\ fs[l.path] = LinkNode(LastWithName(archive[i]).link)

\* C6. Unsupported kinds fail fast: an entry that is no directory, regular
\* file or symlink fails the restore with UnsupportedFileType carrying its
\* kind; nothing is created, listed or deferred for it, and no step follows a
\* failure, so the links deferred before it are never created.
C6_UnsupportedFailsFast ==
    [][/\ pc # "failed"
       /\ (ReadsEntry /\ EntryRead.kind \notin Supported)
           => /\ pc' = "failed"
              /\ err' = UnsupportedFileType(EntryRead.kind)
              /\ fs' = fs /\ touched' = touched
              /\ restored' = restored /\ symlinks' = symlinks]_vars

\* a restore stopped by a FIFO while a deferred link was waiting for pass 2
C6_Witness ==
    /\ pc = "failed"
    /\ err = UnsupportedFileType("Fifo")
    /\ symlinks # <<>>
    /\ Lstat(fs, PlaceOf(symlinks[1])).status = "absent"

\* the lexically canonicalized target of a symlink entry with a well-formed name
CanonicalTarget(entry) == canonicalize_linkname(Anchor, NameOf(entry), entry.link)

\* C7. Symlink escape: a symlink entry (with a well-formed name) whose
\* canonicalized target does not have the anchor as a prefix fails the
\* restore with WriteOutsideDirectory carrying the raw target; the link is
\* neither created nor deferred, and no step follows the failure.
C7_EscapeFails ==
    [][/\ pc # "failed"
       /\ (ReadsEntry /\ EntryRead.kind = "Symlink"
                      /\ check_name(EntryRead.name).well_formed
                      /\ ~IsPrefix(Anchor, CanonicalTarget(EntryRead)))
           => /\ pc' = "failed"
              /\ err' = WriteOutsideDirectory(EntryRead.link)
              /\ symlinks' = symlinks
              /\ restored' = restored
              /\ fs' = fs]_vars

\* a restore stopped by the link `e -> ../` after an earlier entry was
\* materialized
C7_Witness ==
    /\ pc = "failed"
    /\ err = WriteOutsideDirectory(<<".", ".", "/">>)
    /\ restored # <<>>
    /\ Last(archive).name = <<"e">>

RECURSIVE Sub(_, _, _)
\* the subsequence of seq at the indices of set that are at least i
Sub(seq, set, i) ==
    IF i > Len(seq) THEN <<>>
    ELSE IF i \in set THEN <<seq[i]>> \o Sub(seq, set, i + 1)
    ELSE Sub(seq, set, i + 1)

Names(entries) == [i \in DOMAIN entries |-> NameOf(entries[i])]

\* the part of the returned list that pass 2 produced
Pass2Part == SubSeq(restored, Len(restored) - Len(restored_symlinks) + 1, Len(restored))

\* C8. Returned-list ordering: on success the returned list is the names of
\* the entries materialized in pass 1, in archive order, followed by the
\* pass-2 list, whose elements are names of deferred entries.
C8_ReturnedOrder ==
    pc = "done" =>
        \E deferred \in SUBSET DOMAIN archive :
            /\ Sub(archive, deferred, 1) = symlinks
            /\ restored = Names(Sub(archive, DOMAIN archive \ deferred, 1)) \o restored_symlinks
            /\ \A k \in DOMAIN restored_symlinks :
                   \E i \in deferred : NameOf(archive[i]) = restored_symlinks[k]

\* a successful restore whose first entry was deferred and whose later
\* entries were materialized in pass 1
C8_Witness ==
    /\ pc = "done"
    /\ Len(restored) = 3
    /\ symlinks = <<archive[1]>>
    /\ restored[3] = NameOf(archive[1])

Position(seq, x) == CHOOSE i \in 1..Len(seq) : seq[i] = x

\* deferred link i has as target key the source key of deferred link j
DependsOn(i, j) == TargetKey(Anchor, symlinks[i]) = SourceKey(Anchor, symlinks[j])

\* C9. Pass-2 order: for deferred links L and M with the canonicalized target
\* of L equal to the source key of M, L is listed before M in the pass-2 part
\* of the returned list.
C9_SourceBeforeTarget ==
    pc = "done" =>
        \A i, j \in DOMAIN symlinks : DependsOn(i, j) =>
            /\ InSeq(Pass2Part, NameOf(symlinks[i]))
            /\ InSeq(Pass2Part, NameOf(symlinks[j]))
            /\ Position(Pass2Part, NameOf(symlinks[i])) < Position(Pass2Part, NameOf(symlinks[j]))

\* the chain o -> w -> r read in the order w, o and returned in the order o, w
C9_Witness ==
    /\ pc = "done"
    /\ Len(symlinks) = 2
    /\ DependsOn(2, 1)
    /\ Pass2Part = <<NameOf(symlinks[2]), NameOf(symlinks[1])>>

\* C10 as stated. Targets before dependents: in pass 2, when the target of a
\* deferred link is itself a deferred link, the target link has been created
\* by the time the dependent link is.
C10_TargetsBeforeDependents ==
    (pc \in {"pass2", "done"}) =>
        \A i, j \in DOMAIN symlinks : DependsOn(i, j) =>
            (InSeq(restored_symlinks, NameOf(symlinks[i]))
                => InSeq(restored_symlinks, NameOf(symlinks[j])))

\* C10 as amended. Dependents before targets: in pass 2, when the target key
\* of deferred link L is the source key of deferred link M, then by the time
\* M has been created L has been created and is on disk with the raw target
\* of the surviving header of its name.
C10_DependentsBeforeTargets ==
    (pc \in {"pass2", "done"}) =>
        \A i, j \in DOMAIN symlinks :
            (InSeq(restored_symlinks, NameOf(symlinks[j])) /\ DependsOn(i, j)
                => /\ InSeq(restored_symlinks, NameOf(symlinks[i]))
                   /\ Lstat(fs, PlaceOf(symlinks[i])).status = "ok"
                   /\ fs[Lstat(fs, PlaceOf(symlinks[i])).path]
                        = LinkNode(header_lookup[SourceKey(Anchor, symlinks[i])].link))

\* pass 2 has created a dependent link whose target, a deferred link still to
\* be created, is not on disk
C10_Witness ==
    /\ pc = "pass2"
    /\ order # <<>>
    /\ \E i, j \in DOMAIN symlinks :
           /\ DependsOn(i, j)
           /\ restored_symlinks = <<NameOf(symlinks[i])>>
           /\ Lstat(fs, PlaceOf(symlinks[j])).status = "absent"


(***************************************************************************)
(* The name validator on its own                                           *)
(***************************************************************************)
\* the characters entry names are drawn from: the separator, the dot, the
\* backslash and a letter
NameAlphabet == {"/", ".", "\\", "a"}

RawNames == UNION {[1..n -> NameAlphabet] : n \in 0..MaxNameLen}

NameInit ==
    /\ windows = FALSE
    /\ npc = "input"
    /\ raw_name \in RawNames
    /\ validation = check_name(<<>>)
    /\ canonical = canonicalize_name(<<>>)
    /\ with_slash = canonical
    /\ again = canonical
    /\ pc = "new"
    /\ fs = HostFs
    /\ touched = {}
    /\ archive = <<>>
    /\ symlinks = <<>>
    /\ restored = <<>>
    /\ header_lookup = <<>>
    /\ order = <<>>
    /\ restored_symlinks = <<>>
    /\ err = NoError
    /\ ParIdle
    /\ LinkIdle
    /\ HashIdle

\* check_name(raw_name)
CheckName ==
    /\ npc = "input"
    /\ validation' = check_name(raw_name)
    /\ npc' = "checked"
    /\ UNCHANGED <<raw_name, canonical, with_slash, again, rvars, pvars, lvars, hvars>>

\* canonicalize_name(raw_name)
CanonicalizeName ==
    /\ npc = "checked"
    /\ canonical' = canonicalize_name(raw_name)
    /\ npc' = "canonical"
    /\ UNCHANGED <<raw_name, validation, with_slash, again, rvars, pvars, lvars, hvars>>

\* canonicalize_name(raw_name + "/")
CanonicalizeWithSlash ==
    /\ npc = "canonical"
    /\ with_slash' = canonicalize_name(Append(raw_name, "/"))
    /\ npc' = "with_slash"
    /\ UNCHANGED <<raw_name, validation, canonical, again, rvars, pvars, lvars, hvars>>

\* canonicalize_name of the path canonicalize_name(raw_name) returned
CanonicalizeAgain ==
    /\ npc = "with_slash"
    /\ canonical.ok
    /\ again' = canonicalize_name(JoinSlash(canonical.path))
    /\ npc' = "again"
    /\ UNCHANGED <<raw_name, validation, canonical, with_slash, rvars, pvars, lvars, hvars>>

NameNext ==
    \/ CheckName
    \/ CanonicalizeName
    \/ CanonicalizeWithSlash
    \/ CanonicalizeAgain

NameSpec == NameInit /\ [][NameNext]_vars

\* check_name has been applied to raw_name
Checked == npc \in {"checked", "canonical", "with_slash", "again"}

\* s[i..] begins with the characters of p
At(s, i, p) == i + Len(p) - 1 <= Len(s) /\ \A k \in 1..Len(p) : s[i + k - 1] = p[k]

\* the rule set of the specification, read character by character
IllFormedByRule(s) ==
    \/ Len(s) = 0
    \/ s = <<".">>
    \/ s = <<".", ".">>
    \/ At(s, 1, <<"/">>)
    \/ At(s, 1, <<".", "/">>)
    \/ At(s, 1, <<".", ".", "/">>)
    \/ (Len(s) >= 2 /\ At(s, Len(s) - 1, <<"/", ".">>))
    \/ (Len(s) >= 3 /\ At(s, Len(s) - 2, <<"/", ".", ".">>))
    \/ \E i \in 1..Len(s) : \/ At(s, i, <<"/", "/">>)
                            \/ At(s, i, <<"/", ".", "/">>)
                            \/ At(s, i, <<"/", ".", ".", "/">>)

\* C11: for every name over the alphabet, check_name's well_formed flag is
\* false exactly when the name is empty, is `.` or `..`, begins with `/`,
\* `./` or `../`, ends with `/.` or `/..`, or contains `//`, `/./` or
\* `/../`, and true for every other name
C11_WellFormedRuleSet ==
    Checked => (validation.well_formed <=> ~IllFormedByRule(raw_name))

\* check_name has accepted the name `...`
C11_Witness ==
    /\ Checked
    /\ raw_name = <<".", ".", ".">>
    /\ validation.well_formed

HasBackslash(s) == \E i \in 1..Len(s) : s[i] = "\\"

\* C12 as stated: for every name, check_name's windows_safe flag is false
\* exactly when the name contains a backslash
C12_WindowsSafeIffNoBackslash ==
    Checked => (~validation.windows_safe <=> HasBackslash(raw_name))

\* C12, amended: for every non-empty name, windows_safe is false exactly when
\* the name contains a backslash, whatever well_formed is; for the empty name
\* both flags are false
C12_WindowsSafeOfNonEmpty ==
    Checked =>
        IF raw_name = <<>>
        THEN ~validation.windows_safe /\ ~validation.well_formed
        ELSE ~validation.windows_safe <=> HasBackslash(raw_name)

\* check_name has judged a malformed name with a backslash in it
C12_Witness ==
    /\ Checked
    /\ raw_name # <<>>
    /\ HasBackslash(raw_name)
    /\ ~validation.well_formed
    /\ ~validation.windows_safe

\* canonicalize_name has been applied to raw_name
Canonicalized == npc \in {"canonical", "with_slash", "again"}

DotOrEmpty == {<<>>, <<".">>, <<".", ".">>}

\* C13: every name canonicalize_name accepts yields a relative path none of
\* whose components is `.`, `..` or empty and which has no trailing
\* separator; the accepted raw name itself has no such piece between its
\* separators, except for the empty piece after one trailing `/`
C13_AcceptedNameIsClean ==
    (Canonicalized /\ canonical.ok) =>
        LET parts == SplitSlash(raw_name)
            n == Len(parts)
        IN  /\ canonical.path # <<>>
            /\ \A i \in 1..Len(canonical.path) :
                   /\ canonical.path[i] \notin DotOrEmpty
                   /\ \A k \in 1..Len(canonical.path[i]) : canonical.path[i][k] # "/"
            /\ \A i \in 1..n : /\ parts[i] \notin {<<".">>, <<".", ".">>}
                               /\ parts[i] = <<>> => (i = n /\ n > 1)
            /\ canonical.path = IF parts[n] = <<>> THEN Front(parts) ELSE parts

\* canonicalize_name has accepted a two-component name with a trailing `/`
C13_Witness ==
    /\ Canonicalized
    /\ canonical.ok
    /\ Last(raw_name) = "/"
    /\ Len(canonical.path) = 2

\* C14: for a well-formed name n that does not end in `/`,
\* canonicalize_name(n + "/") returns what canonicalize_name(n) returns, and
\* canonicalize_name applied to the path it returned returns that path again
C14_TrailingSlashIdempotent ==
    /\ (/\ npc \in {"with_slash", "again"}
        /\ validation.well_formed
        /\ Last(raw_name) # "/")
           => (canonical.ok /\ with_slash = canonical)
    /\ npc = "again" => again = canonical

\* both calls have been made on a two-component name without trailing `/`
C14_Witness ==
    /\ npc = "again"
    /\ Last(raw_name) # "/"
    /\ Len(canonical.path) = 2
    /\ with_slash.ok
    /\ again.ok

\* the step visits a sorted node that has a header
RestoresDeferred == pc = "pass2" /\ order # <<>> /\ Head(order) \in DOMAIN header_lookup

\* the links the step creates or rewrites on disk
LinksWritten ==
    {p \in DOMAIN fs' : /\ fs'[p].kind = "link"
                        /\ (p \in DOMAIN fs => fs[p] # fs'[p])}

\* C15: every symbolic link restore puts on disk, in pass 1 or in pass 2, has
\* as its target the raw target of the archive header it is restored from,
\* and is the only link the step writes; the canonicalized target is never
\* written
C15_RawTargetOnDisk ==
    [][\A p \in LinksWritten :
          /\ ReadsEntry \/ RestoresDeferred
          /\ LET header == IF ReadsEntry THEN EntryRead ELSE header_lookup[Head(order)]
             IN  /\ header.kind = "Symlink"
                 /\ fs'[p].target = header.link
                 /\ Last(p) = Last(NameOf(header))
                 /\ LinksWritten = {p}]_vars

\* a link to `../` created in pass 1 and a deferred link created in pass 2
\* are both on disk
C15_Witness ==
    /\ pc = "done"
    /\ restored_symlinks # <<>>
    /\ \E p \in DOMAIN fs : fs[p] = LinkNode(<<".", ".", "/">>)
    /\ \E i \in 1..Len(symlinks) :
           /\ Lstat(fs, PlaceOf(symlinks[i])).status = "ok"
           /\ fs[Lstat(fs, PlaceOf(symlinks[i])).path] = LinkNode(symlinks[i].link)

\* what restore_entry answers for the entry the step reads
Raised == restore_entry(Anchor, fs, touched, EntryRead)

RaisedDeferred ==
    restore_symlink_with_missing_target(Anchor, fs, touched, header_lookup[Head(order)])

\* C17: restore never returns LinkTargetDoesNotExist: an entry of pass 1 that
\* raises it is deferred (nothing is created or listed for it and the loop
\* goes on), pass 2 does not raise it, and an error of any other kind, in
\* either pass, is returned as it was raised
C17_MissingTargetNeverReturned ==
    [][/\ err'.kind # "LinkTargetDoesNotExist"
       /\ (ReadsEntry /\ Raised.err.kind = "LinkTargetDoesNotExist")
              => /\ symlinks' = Append(symlinks, EntryRead)
                 /\ pc' = "pass1"
                 /\ err' = NoError
                 /\ fs' = fs
                 /\ restored' = restored
       /\ (ReadsEntry /\ ~Raised.ok /\ Raised.err.kind # "LinkTargetDoesNotExist")
              => (pc' = "failed" /\ err' = Raised.err)
       /\ RestoresDeferred
              => /\ RaisedDeferred.err.kind # "LinkTargetDoesNotExist"
                 /\ ~RaisedDeferred.ok => (pc' = "failed" /\ err' = RaisedDeferred.err)]_vars

\* a restore has succeeded although a link it deferred and then created still
\* points at nothing
C17_Witness ==
    /\ pc = "done"
    /\ err = NoError
    /\ \E i \in 1..Len(symlinks) :
           /\ Lstat(fs, PlaceOf(symlinks[i])).status = "ok"
           /\ Stat(fs, PlaceOf(symlinks[i])).status \notin {"ok", "ELOOP"}

\* the names of the deferred entries
DeferredNames == {NameOf(symlinks[i]) : i \in 1..Len(symlinks)}

\* C18: the list a successful restore returns holds the canonical name of
\* every entry of the archive; it has one element for each entry restored in
\* pass 1 and one for each distinct name among the deferred entries, so when
\* no two deferred links share a name it is as long as the archive
C18_ReturnedListComplete ==
    pc = "done" =>
        /\ \A i \in 1..Len(archive) : InSeq(restored, NameOf(archive[i]))
        /\ Len(restored) = (Len(archive) - Len(symlinks)) + Cardinality(DeferredNames)
        /\ Cardinality(DeferredNames) = Len(symlinks) => Len(restored) = Len(archive)

\* a successful restore of a file and of two deferred links of one name
\* returned two elements for three entries
C18_Witness ==
    /\ pc = "done"
    /\ Len(archive) = 3
    /\ Len(symlinks) = 2
    /\ Len(restored) = 2

\* the restore failed because the archive could not be read to its end
StreamBroke == pc = "failed" /\ err = Io("unexpected end of file")

\* the entries of the archive are directories and regular files with
\* well-formed, pairwise distinct raw names
PlainArchive ==
    /\ \A i \in 1..Len(archive) :
           /\ archive[i].kind \in {"Directory", "Regular"}
           /\ check_name(archive[i].name).well_formed
    /\ \A i, j \in 1..Len(archive) : i # j => archive[i].name # archive[j].name

\* the entries describe a tree: the place of a regular file is neither the
\* place of another entry nor above one
TreeArchive ==
    /\ PlainArchive
    /\ \A i, j \in 1..Len(archive) :
           (i # j /\ archive[i].kind = "Regular")
               => ~IsPrefix(NameOf(archive[i]), NameOf(archive[j]))

\* the directories the entries call for: each directory entry, and every
\* ancestor of an entry, down from the anchor
TreeDirs ==
    UNION {{Anchor \o SubSeq(NameOf(archive[i]), 1, k) : k \in 0..Len(NameOf(archive[i]))} :
               i \in 1..Len(archive)}
    \ {PlaceOf(archive[i]) : i \in {j \in 1..Len(archive) : archive[j].kind = "Regular"}}

\* the filesystem the entries describe, whatever their order
TreeFs ==
    [p \in DOMAIN HostFs \cup {Anchor} \cup {PlaceOf(archive[i]) : i \in 1..Len(archive)}
           \cup TreeDirs |->
        IF \E i \in 1..Len(archive) : archive[i].kind = "Regular" /\ PlaceOf(archive[i]) = p
        THEN FileNode((CHOOSE e \in {archive[i] : i \in 1..Len(archive)} :
                           e.kind = "Regular" /\ PlaceOf(e) = p).body)
        ELSE DirNode]

\* C19 as stated: an archive of directories and regular files with pairwise
\* distinct names restores successfully in whatever order its entries come,
\* and the directories and files it leaves are those its set of entries
\* describes, the same for every order
C19_AnyOrderRestores ==
    PlainArchive =>
        /\ pc = "failed" => StreamBroke
        /\ pc = "done" => fs = TreeFs

\* C19, amended: the same for an archive whose entries describe a tree, no
\* regular file being at or above the place of another entry
C19_AnyOrderRestoresTree ==
    TreeArchive =>
        /\ pc = "failed" => StreamBroke
        /\ pc = "done" => fs = TreeFs

\* a file was restored before the entry of its own directory, next to a file
\* three levels down whose directories have no entry at all
C19_Witness ==
    /\ pc = "done"
    /\ TreeArchive
    /\ Len(archive) = 3
    /\ archive[1].kind = "Regular" /\ Len(NameOf(archive[1])) = 2
    /\ archive[2].kind = "Directory" /\ IsPrefix(NameOf(archive[2]), NameOf(archive[1]))
    /\ archive[3].kind = "Regular" /\ Len(NameOf(archive[3])) = 3

(***************************************************************************)
(* Two restores into distinct anchors of one filesystem.  Each call keeps   *)
(* its state in local variables, here a record; the filesystem is all they  *)
(* share.  A step of a call is one entry of pass 1 or one node of pass 2.   *)
(***************************************************************************)
SecondAnchor == <<TmpDir, <<"B">>>>

Anchors == <<Anchor, SecondAnchor>>

\* the local variables of a call of restore that has not begun
NewCall(anchor) ==
    [anchor |-> anchor, pc |-> "new", touched |-> {}, archive |-> <<>>,
     symlinks |-> <<>>, restored |-> <<>>, header_lookup |-> <<>>, order |-> <<>>,
     restored_symlinks |-> <<>>, err |-> NoError]

World(c, f) == [call |-> c, fs |-> f]

\* restore: the anchor is made before the archive is read
CallStart(c, f) ==
    LET m == MkdirAll(f, c.touched, c.anchor, 1)
    IN  World([c EXCEPT !.pc = IF m.ok THEN "pass1" ELSE "failed", !.err = m.err], m.fs)

\* one iteration of the loop of restore_entries over the archive
CallReadEntry(c, f, entry) ==
    LET r == restore_entry(c.anchor, f, c.touched, entry)
        read == [c EXCEPT !.archive = Append(@, entry)]
    IN  IF r.ok
        THEN World([read EXCEPT !.restored = Append(@, r.path), !.touched = r.touched], r.fs)
        ELSE IF r.err.kind = "LinkTargetDoesNotExist"
        THEN World([read EXCEPT !.symlinks = Append(@, entry)], f)
        ELSE World([read EXCEPT !.pc = "failed", !.err = r.err, !.touched = r.touched], r.fs)

\* the archive is exhausted: the graph is built and sorted
CallSortDeferred(c, f) ==
    LET g == BuildGraph(c.anchor, c.symlinks, EmptyGraph)
        sorted == toposort(g)
    IN  IF sorted.ok
        THEN World([c EXCEPT !.pc = "pass2", !.header_lookup = g.header_lookup,
                             !.order = sorted.nodes], f)
        ELSE World([c EXCEPT !.pc = "failed", !.err = CycleDetected], f)

\* one iteration of the loop over the sorted nodes
CallRestoreDeferred(c, f) ==
    LET visited == [c EXCEPT !.order = Tail(@)]
        r == restore_symlink_with_missing_target(c.anchor, f, c.touched,
                                                 c.header_lookup[Head(c.order)])
    IN  IF Head(c.order) \notin DOMAIN c.header_lookup THEN World(visited, f)
        ELSE IF r.ok
        THEN World([visited EXCEPT !.restored_symlinks = Append(@, r.path),
                                   !.touched = r.touched], r.fs)
        ELSE World([visited EXCEPT !.pc = "failed", !.err = r.err,
                                   !.touched = r.touched], r.fs)

\* the sorted nodes are exhausted: the pass-2 list is appended and returned
CallFinish(c, f) ==
    World([c EXCEPT !.pc = "done", !.restored = @ \o c.restored_symlinks], f)

RECURSIVE RunCall(_, _, _)
\* a call run from where it is to its end over the entries still in the
\* archive, nothing else touching the filesystem
RunCall(c, f, entries) ==
    IF c.pc = "new"
    THEN LET w == CallStart(c, f) IN RunCall(w.call, w.fs, entries)
    ELSE IF c.pc = "pass1" /\ entries # <<>>
    THEN LET w == CallReadEntry(c, f, Head(entries)) IN RunCall(w.call, w.fs, Tail(entries))
    ELSE IF c.pc = "pass1"
    THEN LET w == CallSortDeferred(c, f) IN RunCall(w.call, w.fs, entries)
    ELSE IF c.pc = "pass2" /\ c.order # <<>>
    THEN LET w == CallRestoreDeferred(c, f) IN RunCall(w.call, w.fs, entries)
    ELSE IF c.pc = "pass2"
    THEN CallFinish(c, f)
    ELSE World(c, f)

\* CacheReader::restore on its own
restore(anchor, f, entries) == RunCall(NewCall(anchor), f, entries)

\* the entries of the archives of the two calls
ParPool ==
    { Symlink(<<"s">>, <<".">>),
      Symlink(<<"t">>, <<"s", "/", ".", ".">>),
      Regular(<<"t", "/", "B", "/", "x">>, 1),
      Directory(<<"x", "/">>),
      Symlink(<<"o">>, <<"w">>) }

ParInit ==
    /\ windows = FALSE
    /\ calls = [p \in 1..2 |-> NewCall(Anchors[p])]
    /\ pfs = HostFs
    /\ pc = "new"
    /\ fs = HostFs
    /\ touched = {}
    /\ archive = <<>>
    /\ symlinks = <<>>
    /\ restored = <<>>
    /\ header_lookup = <<>>
    /\ order = <<>>
    /\ restored_symlinks = <<>>
    /\ err = NoError
    /\ NameIdle
    /\ LinkIdle
    /\ HashIdle

\* call p goes on to world w
Becomes(p, w) ==
    /\ calls' = [calls EXCEPT ![p] = w.call]
    /\ pfs' = w.fs
    /\ UNCHANGED <<rvars, nvars, lvars, hvars>>

ParStart(p) ==
    /\ calls[p].pc = "new"
    /\ Becomes(p, CallStart(calls[p], pfs))

ParReadEntry(p, entry) ==
    /\ calls[p].pc = "pass1"
    /\ Len(calls[p].archive) < ParEntries
    /\ Becomes(p, CallReadEntry(calls[p], pfs, entry))

ParSortDeferred(p) ==
    /\ calls[p].pc = "pass1"
    /\ Becomes(p, CallSortDeferred(calls[p], pfs))

ParRestoreDeferred(p) ==
    /\ calls[p].pc = "pass2"
    /\ calls[p].order # <<>>
    /\ Becomes(p, CallRestoreDeferred(calls[p], pfs))

ParFinish(p) ==
    /\ calls[p].pc = "pass2"
    /\ calls[p].order = <<>>
    /\ Becomes(p, CallFinish(calls[p], pfs))

ParNext ==
    \E p \in 1..2 :
        \/ ParStart(p)
        \/ \E entry \in ParPool : ParReadEntry(p, entry)
        \/ ParSortDeferred(p)
        \/ ParRestoreDeferred(p)
        \/ ParFinish(p)

ParSpec == ParInit /\ [][ParNext]_vars

\* what a call hands back to its caller
ResultOf(c) == [ended |-> c.pc, err |-> c.err, restored |-> c.restored]

\* the part of filesystem f at and below anchor
Under(f, anchor) == [q \in {q \in DOMAIN f : IsPrefix(anchor, q)} |-> f[q]]

BothEnded == calls # <<>> /\ \A p \in DOMAIN calls : calls[p].pc \in {"done", "failed"}

\* C20: two restores into distinct, non-nested anchors, interleaved at entry
\* boundaries in any way, each return what they return when run alone on the
\* same archive and leave under their own anchor what they leave when run
\* alone
C20_NoInterference ==
    BothEnded =>
        \A p \in DOMAIN calls :
            LET alone == restore(Anchors[p], HostFs, calls[p].archive)
            IN  /\ ResultOf(calls[p]) = ResultOf(alone.call)
                /\ Under(pfs, Anchors[p]) = Under(alone.fs, Anchors[p])

\* an entry of a supported kind whose name is well-formed and has a backslash
BackslashName(entry) ==
    /\ entry.kind \in Supported
    /\ check_name(entry.name).well_formed
    /\ HasBackslash(entry.name)

\* the name split at its `/` only, backslashes kept
Verbatim(name) == SelectSeq(SplitSlash(name), LAMBDA c : c # <<>>)

\* C21: a well-formed name with a backslash in it is accepted on a
\* non-Windows host, the entry being restored at the verbatim name and
\* listed; on a Windows host it fails the restore with WindowsUnsafeName
\* carrying the name, and nothing is created, listed or deferred for it
C21_BackslashByHost ==
    [][(ReadsEntry /\ BackslashName(EntryRead)) =>
          IF windows
          THEN /\ pc' = "failed"
               /\ err' = WindowsUnsafeName(EntryRead.name)
               /\ fs' = fs
               /\ touched' = touched
               /\ restored' = restored
               /\ symlinks' = symlinks
          ELSE /\ err'.kind \notin {"WindowsUnsafeName", "MalformedName"}
               /\ EntryRead.kind = "Regular" =>
                      /\ pc' = "pass1"
                      /\ restored' = Append(restored, Verbatim(EntryRead.name))
                      /\ Anchor \o Verbatim(EntryRead.name) \in DOMAIN fs'
                      /\ fs'[Anchor \o Verbatim(EntryRead.name)] = FileNode(EntryRead.body)]_vars

\* on a Windows host the restore failed at a name with a backslash, after an
\* earlier entry had been restored
C21_Witness ==
    /\ windows
    /\ pc = "failed"
    /\ err.kind = "WindowsUnsafeName"
    /\ restored # <<>>
    /\ \A p \in DOMAIN fs : \A k \in 1..Len(p) : ~HasBackslash(p[k])

\* the entry the step reads is a regular file whose place is a directory
FileAtDirectory ==
    /\ ReadsEntry
    /\ EntryRead.kind = "Regular"
    /\ canonicalize_name(EntryRead.name).ok
    /\ Stat(fs, PlaceOf(EntryRead)).status = "ok"
    /\ fs[Stat(fs, PlaceOf(EntryRead)).path].kind = "dir"

\* C22: a regular-file entry whose place is an existing directory fails the
\* restore with the Io error `Is a directory`; the directory and everything
\* below it, like the rest of the filesystem, is left as it was
C22_FileAtDirectoryFails ==
    [][FileAtDirectory =>
          /\ pc' = "failed"
          /\ err' = Io("Is a directory")
          /\ fs' = fs
          /\ restored' = restored]_vars

\* a directory, a file below it, then a file at the place of the directory:
\* the restore failed and the directory still holds its file
C22_Witness ==
    /\ pc = "failed"
    /\ err = Io("Is a directory")
    /\ Len(archive) = 3
    /\ archive[1].kind = "Directory"
    /\ archive[3].kind = "Regular"
    /\ PlaceOf(archive[3]) = PlaceOf(archive[1])
    /\ fs[PlaceOf(archive[1])] = DirNode
    /\ PlaceOf(archive[2]) \in DOMAIN fs
    /\ fs[PlaceOf(archive[2])] = FileNode(archive[2].body)
    /\ IsPrefix(PlaceOf(archive[1]), PlaceOf(archive[2]))

\* the regular-file entries of the archive that have the name of entry i
SameNameFiles(i) ==
    {j \in 1..Len(archive) : archive[j].kind = "Regular"
                             /\ archive[j].name = archive[i].name}

Max(set) == CHOOSE m \in set : \A k \in set : k <= m

Occurrences(seq, x) == Cardinality({k \in 1..Len(seq) : seq[k] = x})

\* no link entry of the archive has the place of a regular-file entry, so
\* that no file is replaced by a link or written through one of its own name
FilesApartFromLinks ==
    \A i, j \in 1..Len(archive) :
        archive[i].kind = "Regular" /\ archive[j].kind = "Symlink"
            => PlaceOf(archive[i]) # PlaceOf(archive[j])

ReadsLink ==
    /\ ReadsEntry
    /\ EntryRead.kind = "Symlink"
    /\ check_name(EntryRead.name).well_formed

\* the canonicalized target of the entry is inside the anchor / is on disk
TargetInside(entry) == IsPrefix(Anchor, CanonicalTarget(entry))

TargetOnDisk(f, entry) == Lstat(f, CanonicalTarget(entry)).status = "ok"

\* C24: in pass 1 a symlink entry is deferred exactly when its canonicalized
\* target is inside the anchor and not on disk when the entry is read, and
\* then nothing is created or listed for it; a link whose target is inside
\* the anchor and on disk is not deferred and, unless the OS refuses it, is
\* on disk and listed as soon as it is read; pass 2 makes the deferred
\* entries only
C24_DeferredIffTargetMissing ==
    [][/\ ReadsLink =>
              /\ (symlinks' = Append(symlinks, EntryRead))
                     <=> (TargetInside(EntryRead) /\ ~TargetOnDisk(fs, EntryRead))
              /\ symlinks' # symlinks => (fs' = fs /\ restored' = restored /\ pc' = "pass1")
              /\ (TargetInside(EntryRead) /\ TargetOnDisk(fs, EntryRead))
                     => /\ symlinks' = symlinks
                        /\ \/ pc' = "failed" /\ err'.kind = "Io"
                           \/ /\ pc' = "pass1"
                              /\ restored' = Append(restored, NameOf(EntryRead))
                              /\ Lstat(fs', PlaceOf(EntryRead)).status = "ok"
                              /\ fs'[Lstat(fs', PlaceOf(EntryRead)).path]
                                     = LinkNode(EntryRead.link)
       /\ RestoresDeferred => InSeq(symlinks, header_lookup[Head(order)])]_vars

\* one link was deferred and made in pass 2, another found its target on
\* disk and was made and listed in pass 1
C24_Witness ==
    /\ pc = "done"
    /\ Len(symlinks) = 1
    /\ Len(restored_symlinks) = 1
    /\ Len(restored) = 3
    /\ Cardinality({i \in 1..Len(archive) : archive[i].kind = "Symlink"}) = 2
    /\ Cardinality({p \in DOMAIN fs : fs[p].kind = "link"}) = 2

\* C25: the step that fails the restore with CycleDetected is the end of
\* pass 1 and changes nothing on disk, and no step follows it: no deferred
\* link has been made, the filesystem is the one pass 1 left (the host with
\* the empty anchor when every entry was deferred), and nothing of pass 2 is
\* listed
C25_CycleLeavesPass1State ==
    [][/\ err.kind # "CycleDetected"
       /\ err'.kind = "CycleDetected" =>
              /\ pc = "pass1"
              /\ pc' = "failed"
              /\ fs' = fs
              /\ restored' = restored
              /\ restored_symlinks' = <<>>
              /\ Len(symlinks) = Len(archive) => fs' = HostFs @@ (Anchor :> DirNode)]_vars

\* a file was restored, two links that point at each other were deferred and
\* the restore failed: the file is there and no link is
C25_Witness ==
    /\ pc = "failed"
    /\ err = CycleDetected
    /\ Len(symlinks) = 2
    /\ Len(archive) = 3
    /\ \E p \in DOMAIN fs : fs[p].kind = "file"
    /\ \A p \in DOMAIN fs : fs[p].kind # "link"

\* the step reads an entry whose name is ill-formed
ReadsIllFormed == ReadsEntry /\ ~check_name(EntryRead.name).well_formed

\* C26 as stated: name validation precedes kind dispatch, an entry whose name
\* is ill-formed fails the restore with MalformedName whatever its kind, an
\* unsupported kind included
C26_NameBeforeKind ==
    [][ReadsIllFormed =>
           /\ pc' = "failed"
           /\ err' = MalformedName(EntryRead.name)]_vars

\* C26 amended: kind dispatch precedes name validation. An entry with an
\* ill-formed name always fails the restore and creates nothing; the error is
\* MalformedName carrying the raw name when the kind is directory, regular
\* file or symlink, and UnsupportedFileType carrying the kind otherwise
C26_KindBeforeName ==
    [][ReadsIllFormed =>
           /\ pc' = "failed"
           /\ fs' = fs
           /\ restored' = restored
           /\ symlinks' = symlinks
           /\ err' = IF EntryRead.kind \in Supported
                     THEN MalformedName(EntryRead.name)
                     ELSE UnsupportedFileType(EntryRead.kind)]_vars

\* a restore stopped by the FIFO `../x`, and restores stopped by a directory,
\* a regular file and a symlink with ill-formed names exist as well
C26_Witness ==
    /\ pc = "failed"
    /\ archive # <<>>
    /\ archive[Len(archive)] = Fifo(<<".", ".", "/", "x">>)
    /\ err = UnsupportedFileType("Fifo")
    /\ \A kind \in Supported :
           \E entry \in EntryPool :
               /\ entry.kind = kind
               /\ ~check_name(entry.name).well_formed

\* the step on which reading the archive fails: pass 1 ends in failure
\* without an entry having been read and without the sort of the deferred
\* links having found a cycle
StreamFails ==
    /\ pc = "pass1"
    /\ pc' = "failed"
    /\ archive' = archive
    /\ err' # CycleDetected

ReadsExistingDirectory ==
    /\ ReadsEntry
    /\ EntryRead.kind = "Directory"
    /\ canonicalize_name(EntryRead.name).ok
    /\ Lstat(fs, PlaceOf(EntryRead)).status = "ok"
    /\ fs[Lstat(fs, PlaceOf(EntryRead)).path].kind = "dir"

\* the entries without the directory entries that repeat an earlier entry
RECURSIVE WithoutRepeatedDirectories(_)
WithoutRepeatedDirectories(entries) ==
    IF entries = <<>> THEN <<>>
    ELSE LET last == entries[Len(entries)]
             init == Front(entries)
         IN  IF last.kind = "Directory" /\ InSeq(init, last)
             THEN WithoutRepeatedDirectories(init)
             ELSE Append(WithoutRepeatedDirectories(init), last)

\* C28: restoring a directory entry whose place is a directory already
\* succeeds, changes nothing on disk and lists the same anchored path as a
\* first restore of it; a restore of an archive that was read to its end
\* ends as the restore of the same archive with every directory listed once
\* does, with the same filesystem
C28_DirectoryIdempotent ==
    [][/\ ReadsExistingDirectory =>
              /\ pc' = "pass1"
              /\ fs' = fs
              /\ restored' = Append(restored, NameOf(EntryRead))
              /\ symlinks' = symlinks
       /\ (/\ pc' \in {"done", "failed"}
           /\ ~StreamBroke'
           /\ WithoutRepeatedDirectories(archive') # archive') =>
              LET once == restore(Anchor, HostFs, WithoutRepeatedDirectories(archive'))
              IN  /\ once.call.pc = pc'
                  /\ once.call.err = err'
                  /\ once.fs = fs']_vars

\* `d/` was listed twice around a file in it, and the restore is done
C28_Witness ==
    /\ pc = "done"
    /\ Len(archive) = 3
    /\ archive[1] = Directory(<<"d", "/">>)
    /\ archive[2] = Regular(<<"d", "/", "f">>, 1)
    /\ archive[3] = Directory(<<"d", "/">>)
    /\ restored = << <<"d">>, <<"d", "f">>, <<"d">> >>

(***************************************************************************)
(* canonicalize_linkname on its own: an anchored link name and a raw       *)
(* target are drawn, then canonicalized against the anchor, on either host *)
(***************************************************************************)
\* the characters link targets are drawn from
TargetAlphabet == {"/", ".", "\\", "t"}

LinkTargets == UNION {[1..n -> TargetAlphabet] : n \in 0..MaxTargetLen}

\* anchored names of links at the anchor, one and two directories down
LinkSources ==
    { << <<"s">> >>,
      << <<"c">>, <<"s">> >>,
      << <<"c">>, <<"e">>, <<"s">> >> }

LinkInit ==
    /\ windows \in BOOLEAN
    /\ link_pc = "input"
    /\ link_source \in LinkSources
    /\ link_target \in LinkTargets
    /\ link_canonical = <<>>
    /\ pc = "new"
    /\ fs = HostFs
    /\ touched = {}
    /\ archive = <<>>
    /\ symlinks = <<>>
    /\ restored = <<>>
    /\ header_lookup = <<>>
    /\ order = <<>>
    /\ restored_symlinks = <<>>
    /\ err = NoError
    /\ NameIdle
    /\ ParIdle
    /\ HashIdle

\* canonicalize_linkname(anchor, link_source, link_target)
CanonicalizeLinkname ==
    /\ link_pc = "input"
    /\ link_canonical' = canonicalize_linkname(Anchor, link_source, link_target)
    /\ link_pc' = "done"
    /\ UNCHANGED <<link_source, link_target, rvars, nvars, pvars, hvars>>

LinkNext == CanonicalizeLinkname

LinkSpec == LinkInit /\ [][LinkNext]_vars

\* the components of base joined with the raw path: an absolute raw path
\* replaces base
JoinPath(base, raw) == IF IsAbsolute(raw) THEN Pieces(raw) ELSE base \o Pieces(raw)

\* path with `.` and `..` collapsed by rewriting: a `.` is dropped, the first
\* `..` is dropped with the component before it (alone when it is the first
\* component), until none is left
RECURSIVE Collapsed(_)
Collapsed(path) ==
    LET dots == {i \in 1..Len(path) : path[i] = <<".">>}
        ups  == {i \in 1..Len(path) : path[i] = <<".", ".">>}
        Without(from, to) == SubSeq(path, 1, from - 1) \o SubSeq(path, to + 1, Len(path))
    IN  IF dots # {}
        THEN LET i == CHOOSE i \in dots : \A j \in dots : i <= j
             IN  Collapsed(Without(i, i))
        ELSE IF ups # {}
        THEN LET i == CHOOSE i \in ups : \A j \in ups : i <= j
             IN  Collapsed(Without(IF i = 1 THEN 1 ELSE i - 1, i))
        ELSE path

\* C29: canonicalize_linkname(anchor, name, target) is the anchor joined with
\* the parent directory of name and then with target, `.` and `..` collapsed
\* lexically; the link `child/source` with target `../t` gives anchor/t on
\* either host; on a non-Windows host the backslash is no separator, so the
\* target `..\t` of that link is one component and gives anchor/child/`..\t`,
\* while on Windows it gives anchor/t
C29_LinknameIsLexicalJoin ==
    link_pc = "done" =>
        /\ link_canonical = Collapsed(JoinPath(Anchor \o Front(link_source), link_target))
        /\ (Len(link_source) = 2 /\ link_target = <<".", ".", "/", "t">>)
               => link_canonical = Anchor \o << <<"t">> >>
        /\ (Len(link_source) = 2 /\ link_target = <<".", ".", "\\", "t">>)
               => link_canonical = IF windows THEN Anchor \o << <<"t">> >>
                                    ELSE Anchor \o << <<"c">>, <<".", ".", "\\", "t">> >>
        /\ ~windows =>
               \A i \in 1..Len(link_canonical) :
                   \A k \in 1..Len(link_canonical[i]) : link_canonical[i][k] # "/"

\* the target `..\t` of a link one directory down was canonicalized on a
\* non-Windows host
C29_Witness ==
    /\ link_pc = "done"
    /\ ~windows
    /\ link_source = << <<"c">>, <<"s">> >>
    /\ link_target = <<".", ".", "\\", "t">>
    /\ link_canonical = Anchor \o << <<"c">>, <<".", ".", "\\", "t">> >>

\* the link under canonicalization has a relative target
RelativeTarget == link_pc = "done" /\ ~IsAbsolute(link_target)

\* the number of components of the target's first n that are c
CountOf(c, n) == Cardinality({i \in 1..n : Pieces(link_target)[i] = c})

\* read from left to right, the target never has more `..` components than
\* the link's depth below the anchor and the named components before them
StaysBelowAnchor ==
    \A n \in 1..Len(Pieces(link_target)) :
        2 * CountOf(<<".", ".">>, n) <= (Len(link_source) - 1) + n - CountOf(<<".">>, n)

\* by how many `..` components a target made of `.` and `..` only goes above
\* the anchor, 0 when it does not
StepsAbove ==
    LET n == Len(Pieces(link_target))
        above == CountOf(<<".", ".">>, n) - (Len(link_source) - 1)
    IN  IF CountOf(<<".", ".">>, n) + CountOf(<<".">>, n) = n /\ above > 0
        THEN above ELSE 0

\* C30 as stated: `..` is clamped at the anchor, the canonicalized target of
\* every relative link target has the anchor as a prefix
C30_ClampedAtAnchor ==
    RelativeTarget => IsPrefix(Anchor, link_canonical)

\* C30 amended: `..` pops the components of the anchor as it pops any other
\* and stops at the root only. The canonicalized target of a relative target
\* has the anchor as a prefix when the target never goes above the anchor; a
\* target that climbs k components above the anchor gives the anchor without
\* its last k components, which does not have the anchor as a prefix
C30_PopsAnchorComponents ==
    RelativeTarget =>
        /\ StaysBelowAnchor => IsPrefix(Anchor, link_canonical)
        /\ StepsAbove > 0 =>
               /\ link_canonical = SubSeq(Anchor, 1, IF StepsAbove > Len(Anchor)
                                                     THEN 0 ELSE Len(Anchor) - StepsAbove)
               /\ ~IsPrefix(Anchor, link_canonical)

\* the target `../` of a link at the anchor was canonicalized to the parent
\* of the anchor
C30_Witness ==
    /\ link_pc = "done"
    /\ link_source = << <<"s">> >>
    /\ link_target = <<".", ".", "/">>
    /\ link_canonical = <<TmpDir>>

\* the last deferred entry with the anchored name name
LastDeferred(name) ==
    LET same == {i \in DOMAIN symlinks : NameOf(symlinks[i]) = name}
    IN  symlinks[CHOOSE i \in same : \A j \in same : j <= i]

\* the keys of the graph that are the target of a deferred link and the
\* source of none
TargetOnlyKeys ==
    {TargetKey(Anchor, symlinks[i]) : i \in DOMAIN symlinks}
        \ {SourceKey(Anchor, symlinks[i]) : i \in DOMAIN symlinks}

\* C31: the pass-2 list holds names of deferred entries only, each once; a
\* key that is only a target has no header and adds nothing; the header a
\* name is restored from is the last deferred entry of that name, and the
\* step that lists the name puts the link of that header on disk; when the
\* restore is done the list holds every deferred name
C31_Pass2ListsDeferredNamesOnce ==
    [][/\ \A k \in DOMAIN restored_symlinks' :
              /\ restored_symlinks'[k] \in DeferredNames
              /\ \A m \in DOMAIN restored_symlinks' :
                     restored_symlinks'[m] = restored_symlinks'[k] => m = k
       /\ (pc = "pass2" /\ order # <<>> /\ Head(order) \in TargetOnlyKeys) =>
              /\ restored_symlinks' = restored_symlinks
              /\ fs' = fs
       /\ (RestoresDeferred /\ pc' # "failed") =>
              LET header == LastDeferred(NameOf(header_lookup[Head(order)]))
              IN  /\ header_lookup[Head(order)] = header
                  /\ restored_symlinks' = Append(restored_symlinks, NameOf(header))
                  /\ Lstat(fs', PlaceOf(header)).status = "ok"
                  /\ fs'[Lstat(fs', PlaceOf(header)).path] = LinkNode(header.link)
       /\ pc' = "done" =>
              /\ {restored_symlinks'[k] : k \in DOMAIN restored_symlinks'} = DeferredNames
              /\ Len(restored_symlinks') = Cardinality(DeferredNames)]_vars

\* two deferred entries of the name `w`, with targets that no entry provides:
\* the restore is done, `w` is listed once and has the target of the second
C31_Witness ==
    /\ pc = "done"
    /\ Len(symlinks) = 2
    /\ symlinks[1].name = symlinks[2].name
    /\ symlinks[1].link # symlinks[2].link
    /\ Cardinality(TargetOnlyKeys) = 2
    /\ restored_symlinks = <<NameOf(symlinks[2])>>
    /\ fs[Lstat(fs, PlaceOf(symlinks[2])).path] = LinkNode(symlinks[2].link)

\* C32: the graph key of every deferred link's source is the anchor joined
\* with the link's name, the place at which the link is created; so a
\* deferred link whose target is the place of another deferred link has that
\* link's source key as its target key, at any directory depth
C32_SourceKeyIsPlace ==
    /\ \A i \in DOMAIN symlinks : SourceKey(Anchor, symlinks[i]) = PlaceOf(symlinks[i])
    /\ \A i, j \in DOMAIN symlinks : PointsAt(i, j) => DependsOn(i, j)

\* the deferred entries pass 2 would restore: the last of each name
Survivors ==
    {i \in DOMAIN symlinks :
        \A j \in DOMAIN symlinks : j > i => NameOf(symlinks[j]) # NameOf(symlinks[i])}

RECURSIVE SurvivorsReachedFrom(_, _)
\* the surviving deferred links reachable from those of set by following
\* targets through surviving links
SurvivorsReachedFrom(set, n) ==
    IF n = 0 THEN set
    ELSE SurvivorsReachedFrom(
             set \cup {j \in Survivors : \E i \in set : PointsAt(i, j)}, n - 1)

\* the links pass 2 would create form a cycle
SurvivorCycle ==
    \E i \in Survivors :
        i \in SurvivorsReachedFrom({j \in Survivors : PointsAt(i, j)}, Len(symlinks))

\* C33: the restore fails with CycleDetected only when the links pass 2
\* would create, the last header of each deferred name, form a cycle; the
\* edge of an earlier entry of a name that a later entry replaced causes no
\* failure
C33_CycleOnlyAmongSurvivors ==
    err = CycleDetected => SurvivorCycle

\* the symbolic links on disk under the anchor
LinksOnDisk == {p \in DOMAIN fs : StrictlyBelowAnchor(p) /\ fs[p].kind = "link"}

\* the link the target of the link at p names, if it names a link: the
\* target is resolved from the directory of p without following its end
LinkAfter(p) ==
    LET l == Walk(fs, IF IsAbsolute(fs[p].target) THEN <<>> ELSE Front(p),
                  Pieces(fs[p].target), FALSE, MaxFollow)
    IN  IF l.status = "ok" /\ l.path \in LinksOnDisk THEN {l.path} ELSE {}

RECURSIVE LinksReachedFrom(_, _)
LinksReachedFrom(set, n) ==
    IF n = 0 THEN set
    ELSE LinksReachedFrom(set \cup UNION {LinkAfter(p) : p \in set}, n - 1)

\* following link targets from the link at p comes back to it
OnLinkCycle(p) == p \in LinksReachedFrom(LinkAfter(p), Cardinality(LinksOnDisk))

\* C34: after a successful restore no symbolic link on disk under the anchor
\* is on a cycle of links
C34_NoLinkCycleOnDisk ==
    pc = "done" => \A p \in LinksOnDisk : ~OnLinkCycle(p)

\* a successful restore that deferred nothing left a cycle of links
PassOneCycle ==
    /\ pc = "done"
    /\ symlinks = <<>>
    /\ \E p \in LinksOnDisk : OnLinkCycle(p)

\* the place of the link of header holds a link that leads nowhere
Dangling(f, header) ==
    /\ Lstat(f, PlaceOf(header)).status = "ok"
    /\ f[Lstat(f, PlaceOf(header)).path] = LinkNode(header.link)
    /\ Stat(f, PlaceOf(header)).status \notin {"ok", "ELOOP"}

\* C35: pass 2 never fails because a target is missing. A step of pass 2
\* fails only when the OS refuses the link itself; a deferred link whose
\* target is not on disk is created all the same, as a dangling link, and is
\* listed; and once every node is visited the restore is done and returns
\* the pass-2 list
C35_MissingTargetCreatedInPass2 ==
    [][/\ RestoresDeferred =>
              LET header == header_lookup[Head(order)]
              IN  /\ pc' = "failed" => err'.kind = "Io"
                  /\ (pc' # "failed" /\ ~TargetOnDisk(fs, header)) =>
                         /\ Dangling(fs', header)
                         /\ restored_symlinks' = Append(restored_symlinks, NameOf(header))
       /\ (pc = "pass2" /\ order = <<>>) =>
              (pc' = "done" /\ restored' = restored \o restored_symlinks)]_vars

\* the only entry was a link whose target nothing provides: the restore is
\* done, the link dangles and is listed
C35_Witness ==
    /\ pc = "done"
    /\ Len(archive) = 1
    /\ symlinks = archive
    /\ Dangling(fs, archive[1])
    /\ restored = <<NameOf(archive[1])>>

TurboRoot == << <<"R">> >>

PackagePath == << <<"p">> >>

\* turbo_root.resolve(package_path)
FullPackagePath == TurboRoot \o PackagePath

\* the files that can be on disk: one beside the package and, in it, a file,
\* two files in a directory, a hidden file, a file and a directory that the
\* gitignore files name
FilePool ==
    { TurboRoot \o << <<"t">> >>,
      FullPackagePath \o << <<"a", "f">> >>,
      FullPackagePath \o << <<"s">>, <<"b", "f">> >>,
      FullPackagePath \o << <<"s">>, <<"x", "f">> >>,
      FullPackagePath \o << <<".", "h">> >>,
      FullPackagePath \o << <<"i">> >>,
      FullPackagePath \o << <<"g">>, <<"a", "f">> >> }

\* the patterns a caller gives: `**/*f`, `!s/xf`, `s/*` and `!**/*f`
PatternPool ==
    { <<"*", "*", "/", "*", "f">>,
      <<"!", "s", "/", "x", "f">>,
      <<"s", "/", "*">>,
      <<"!", "*", "*", "/", "*", "f">> }

HashInputs == UNION {[1..n -> PatternPool] : n \in 0..MaxInputs}

\* the directories of a tree of files
DirsOf(files) == UNION {{SubSeq(f, 1, k) : k \in 0..(Len(f) - 1)} : f \in files}

\* the gitignore files of the root and of the package: the name `i`, and the
\* directory `g/`
IgnoredName == <<"i">>

IgnoredDir == <<"g">>

\* a gitignore rule names the entry at path or a directory above it
GitIgnored(files, path) ==
    \E k \in (Len(FullPackagePath) + 1)..Len(path) :
        \/ path[k] = IgnoredName
        \/ path[k] = IgnoredDir /\ SubSeq(path, 1, k) \in DirsOf(files)

\* the entry at path or a directory above it, below the root of the walk,
\* has a name that begins with a dot
Hidden(path) ==
    \E k \in (Len(FullPackagePath) + 1)..Len(path) : Head(path[k]) = "."

\* the order in which a walk meets the entries, depth first
WalkOrder ==
    << FullPackagePath,
       FullPackagePath \o << <<".", "h">> >>,
       FullPackagePath \o << <<"a", "f">> >>,
       FullPackagePath \o << <<"g">> >>,
       FullPackagePath \o << <<"g">>, <<"a", "f">> >>,
       FullPackagePath \o << <<"i">> >>,
       FullPackagePath \o << <<"s">> >>,
       FullPackagePath \o << <<"s">>, <<"b", "f">> >>,
       FullPackagePath \o << <<"s">>, <<"x", "f">> >> >>

\* WalkBuilder::new(root) with follow_links(false), git_ignore(true),
\* require_git(false) and the defaults of the builder otherwise, hidden
\* entries skipped among them: the root, always, and the entries below it
\* that are neither hidden nor ignored
WalkBuilder(files) ==
    SelectSeq(WalkOrder,
              LAMBDA d : \/ d = FullPackagePath
                         \/ /\ d \in files \cup DirsOf(files)
                            /\ ~Hidden(d)
                            /\ ~GitIgnored(files, d))

RECURSIVE SplitComma(_)
\* the pieces of s between its commas
SplitComma(s) ==
    IF \A i \in 1..Len(s) : s[i] # "," THEN <<s>>
    ELSE LET i == CHOOSE k \in 1..Len(s) : s[k] = "," /\ \A j \in 1..(k - 1) : s[j] # ","
         IN  <<SubSeq(s, 1, i - 1)>> \o SplitComma(SubSeq(s, i + 1, Len(s)))

RECURSIVE JoinComma(_)
\* includes.join(",")
JoinComma(globs) ==
    IF globs = <<>> THEN <<>>
    ELSE IF Len(globs) = 1 THEN globs[1]
    ELSE globs[1] \o <<",">> \o JoinComma(Tail(globs))

RECURSIVE glob_match(_, _)
\* glob_match::glob_match for globs made of literals, `*`, `**/` and one
\* level of braces
glob_match(glob, path) ==
    LET From(seq, i) == SubSeq(seq, i, Len(seq))
    IN  IF glob = <<>> THEN path = <<>>
        ELSE IF glob[1] = "{"
        THEN /\ \E i \in 1..Len(glob) : glob[i] = "}"
             /\ LET close == CHOOSE i \in 1..Len(glob) :
                                 glob[i] = "}" /\ \A j \in 1..(i - 1) : glob[j] # "}"
                    branches == SplitComma(SubSeq(glob, 2, close - 1))
                IN  \E b \in 1..Len(branches) :
                        glob_match(branches[b] \o From(glob, close + 1), path)
        ELSE IF StartsWith(glob, <<"*", "*", "/">>)
        THEN \/ glob_match(From(glob, 4), path)
             \/ \E i \in 1..Len(path) :
                    path[i] = "/" /\ glob_match(From(glob, 4), From(path, i + 1))
        ELSE IF glob[1] = "*"
        THEN \E k \in 0..Len(path) :
                 /\ \A j \in 1..k : path[j] # "/"
                 /\ glob_match(Tail(glob), From(path, k + 1))
        ELSE /\ path # <<>>
             /\ path[1] = glob[1]
             /\ glob_match(Tail(glob), Tail(path))

\* Path::to_slash of a pattern: the separators of the host become `/`
to_slash(pattern) == Slashed(pattern)

\* the first loop: the patterns without `!` and, stripped of it, those with
includes(patterns) ==
    LET kept == SelectSeq(patterns, LAMBDA q : ~StartsWith(q, <<"!">>))
    IN  [k \in 1..Len(kept) |-> to_slash(kept[k])]

excludes(patterns) ==
    LET kept == SelectSeq(patterns, LAMBDA q : StartsWith(q, <<"!">>))
    IN  [k \in 1..Len(kept) |-> to_slash(Tail(kept[k]))]

\* format!("{{{}}}", globs.join(","))
BracePattern(globs) == <<"{">> \o JoinComma(globs) \o <<"}">>

\* the content of a file and git_like_hash_file of it, an opaque value
ContentOf(path) == Len(Last(path))

git_like_hash_file(path) == <<"blob", ContentOf(path)>>

\* full_package_path.anchor(path) and to_unix of it
relative_path(path) ==
    JoinSlash(SubSeq(path, Len(FullPackagePath) + 1, Len(path)))

\* a package is on disk and the caller has chosen the patterns
HashInit ==
    /\ windows = FALSE
    /\ hash_pc = "input"
    /\ tree \in SUBSET FilePool
    /\ inputs \in HashInputs
    /\ walker = <<>>
    /\ hashes = <<>>
    /\ pc = "new"
    /\ fs = HostFs
    /\ touched = {}
    /\ archive = <<>>
    /\ symlinks = <<>>
    /\ restored = <<>>
    /\ header_lookup = <<>>
    /\ order = <<>>
    /\ restored_symlinks = <<>>
    /\ err = NoError
    /\ NameIdle
    /\ ParIdle
    /\ LinkIdle

\* the patterns are sorted into includes and excludes and the walker is
\* built
BuildWalker ==
    /\ hash_pc = "input"
    /\ walker' = WalkBuilder(tree)
    /\ hash_pc' = "walking"
    /\ UNCHANGED <<tree, inputs, hashes, rvars, nvars, pvars, lvars>>

\* one iteration of the loop over the walker
VisitDirent ==
    /\ hash_pc = "walking"
    /\ walker # <<>>
    /\ walker' = Tail(walker)
    /\ LET dirent == Head(walker)
           key == relative_path(dirent)
       IN  IF dirent \notin tree
           THEN UNCHANGED hashes
           ELSE IF /\ includes(inputs) # <<>>
                   /\ ~glob_match(BracePattern(includes(inputs)), key)
           THEN UNCHANGED hashes
           ELSE IF /\ excludes(inputs) # <<>>
                   /\ glob_match(BracePattern(excludes(inputs)), key)
           THEN UNCHANGED hashes
           ELSE hashes' = (key :> git_like_hash_file(dirent)) @@ hashes
    /\ UNCHANGED <<hash_pc, tree, inputs, rvars, nvars, pvars, lvars>>

\* the walker or the metadata of an entry reports an error: Err, and the map
\* is dropped
DirentFails ==
    /\ hash_pc = "walking"
    /\ walker # <<>>
    /\ hash_pc' = "failed"
    /\ UNCHANGED <<tree, inputs, walker, hashes, rvars, nvars, pvars, lvars>>

\* the walker is exhausted: Ok(hashes)
ReturnHashes ==
    /\ hash_pc = "walking"
    /\ walker = <<>>
    /\ hash_pc' = "done"
    /\ UNCHANGED <<tree, inputs, walker, hashes, rvars, nvars, pvars, lvars>>

HashNext ==
    \/ BuildWalker
    \/ VisitDirent
    \/ DirentFails
    \/ ReturnHashes

HashSpec == HashInit /\ [][HashNext]_vars

\* the pattern, taken on its own, matches the key
MatchesAlone(pattern, key) == glob_match(pattern, key)

====
